---- MODULE Spec2Model ----
(***************************************************************************)
(* A model of the RUZZT engine (yokljo/ruzzt): the board simulator with    *)
(* its status list and action reducer, the partial-step scheduler, the     *)
(* engine's step call, the ZZT-OOP interpreter and the element behaviours  *)
(* that the verified properties exercise.                                  *)
(*                                                                         *)
(* Conventions.  Status indices, code positions and tile coordinates keep  *)
(* the program's 0-based values; At(seq, i) reads the element a Rust       *)
(* Vec holds at index i.  An Option is a sequence of length at most one    *)
(* (None, Some(v)).  A DosString is a sequence of one-character strings;   *)
(* a word read from it is the TLA+ string of its characters.  The tiles    *)
(* Vec is stored as the function that holds the cells differing from the   *)
(* board BoardSimulator::new builds; get_tile reads every cell of it.      *)
(***************************************************************************)
EXTENDS Integers, Sequences, FiniteSets, TLC

BOARD_WIDTH == 62
BOARD_HEIGHT == 27

ElementType ==
    [Empty |-> 0, BoardEdge |-> 1, Monitor |-> 3, Player |-> 4, Ammo |-> 5,
     Gem |-> 7, Scroll |-> 10, Star |-> 15, Bullet |-> 18, Water |-> 19,
     Solid |-> 21,
     Normal |-> 22, Breakable |-> 23, Boulder |-> 24, Fake |-> 27, Ricochet |-> 32, Object |-> 36,
     Pusher |-> 40, Lion |-> 41, Head |-> 44, Segment |-> 45]

None == <<>>
Some(v) == <<v>>
At(seq, i) == seq[i + 1]

(***************************************************************************)
(* Call(f, args) applies the operator named f to the arguments args.  The  *)
(* operators that follow the calls of the program (the reducer, the        *)
(* behaviours, the parser's commands) call one another through Call, which *)
(* is defined after them.                                                  *)
(***************************************************************************)
RECURSIVE Call(_, _)

\* `as u8` of an i16 value.
AsU8(v) == v % 256
AsI16(v) == IF v % 65536 >= 32768 THEN (v % 65536) - 65536 ELSE v % 65536

Owned(code) == [bound |-> FALSE, code |-> code, index |-> 0]
Bound(i) == [bound |-> TRUE, code |-> <<>>, index |-> i]

BoardTile(element_id, colour) == [element_id |-> element_id, colour |-> colour]

StatusElementDefault ==
    [location_x |-> 0, location_y |-> 0, step_x |-> 0, step_y |-> 0,
     cycle |-> 1, param1 |-> 0, param2 |-> 0, param3 |-> 0,
     follower |-> -1, leader |-> -1,
     under_element_id |-> 0, under_colour |-> 0,
     code_current_instruction |-> 0, code_source |-> Owned(<<>>)]

(***************************************************************************)
(* BoardSimulator: tiles.                                                  *)
(***************************************************************************)
NewTile(index) ==
    LET x == index % BOARD_WIDTH
        y == index \div BOARD_WIDTH
    IN IF x = 0 \/ x = BOARD_WIDTH - 1 \/ y = 0 \/ y = BOARD_HEIGHT - 1
       THEN BoardTile(ElementType.BoardEdge, 0)
       ELSE BoardTile(ElementType.Empty, 0)

\* Option<BoardTile>: None when x + y * BOARD_WIDTH is no index of the Vec.
get_tile(sim, x, y) ==
    LET index == x + (y * BOARD_WIDTH)
    IN IF index >= 0 /\ index < BOARD_WIDTH * BOARD_HEIGHT
       THEN Some(IF index \in DOMAIN sim.tiles THEN sim.tiles[index] ELSE NewTile(index))
       ELSE None

set_tile(sim, x, y, tile) ==
    LET index == x + (y * BOARD_WIDTH)
    IN IF index >= 0 /\ index < BOARD_WIDTH * BOARD_HEIGHT
       THEN [sim EXCEPT !.tiles =
                IF tile = NewTile(index)
                THEN [i \in DOMAIN sim.tiles \ {index} |-> sim.tiles[i]]
                ELSE [i \in DOMAIN sim.tiles \cup {index} |->
                        IF i = index THEN tile ELSE sim.tiles[i]]]
       ELSE sim

\* The element id whose behaviour acts at x/y; -1 stands for DEFAULT_BEHAVIOUR
\* where there is no tile.
behaviour_for_pos(sim, x, y) ==
    LET tile_opt == get_tile(sim, x, y)
    IN IF tile_opt /= None THEN tile_opt[1].element_id ELSE -1

get_first_status_for_pos(sim, x, y) ==
    LET matching == {i \in 0 .. Len(sim.status_elements) - 1 :
                        /\ At(sim.status_elements, i).location_x = AsU8(x)
                        /\ At(sim.status_elements, i).location_y = AsU8(y)}
    IN IF matching = {} THEN None
       ELSE Some(CHOOSE i \in matching : \A j \in matching : i <= j)

\* A Board of the world: its tiles are held by their index x + y * 60 in the
\* Vec of the board, for the tiles that are not empty tiles of colour 0.
\* The index in the Vec of the board of an index in the Vec of the simulator.
board_index(index) == ((index % BOARD_WIDTH) - 1) + (((index \div BOARD_WIDTH) - 1) * (BOARD_WIDTH - 2))

\* The index in the Vec of the simulator of an index in the Vec of a board.
simulator_index(index) == ((index % (BOARD_WIDTH - 2)) + 1) + (((index \div (BOARD_WIDTH - 2)) + 1) * BOARD_WIDTH)

\* Whether an index in the Vec of the simulator is of a tile of the border.
on_border(index) ==
    \/ index % BOARD_WIDTH = 0 \/ index % BOARD_WIDTH = BOARD_WIDTH - 1
    \/ index \div BOARD_WIDTH = 0 \/ index \div BOARD_WIDTH = BOARD_HEIGHT - 1

\* A load that keeps the status elements of the simulator; the properties of
\* a board switch must tell it from load_board.
load_board_keeping_status_elements(sim, board) ==
    [sim EXCEPT
       !.board_meta_data = board.meta_data,
       !.tiles = [i \in {j \in DOMAIN sim.tiles : on_border(j)}
                         \cup {simulator_index(j) : j \in DOMAIN board.tiles} |->
                    IF on_border(i) THEN sim.tiles[i] ELSE board.tiles[board_index(i)]]]

load_board(sim, board) ==
    [sim EXCEPT
       !.board_meta_data = board.meta_data,
       !.status_elements = board.status_elements,
       !.tiles = [i \in {j \in DOMAIN sim.tiles : on_border(j)}
                         \cup {simulator_index(j) : j \in DOMAIN board.tiles} |->
                    IF on_border(i) THEN sim.tiles[i] ELSE board.tiles[board_index(i)]]]

save_board(sim) ==
    [meta_data |-> sim.board_meta_data,
     status_elements |-> sim.status_elements,
     tiles |-> [i \in {board_index(j) : j \in {k \in DOMAIN sim.tiles : ~on_border(k)}} |->
                  sim.tiles[simulator_index(i)]]]

(***************************************************************************)
(* BoardSimulator: removing statuses, moving tiles.                        *)
(***************************************************************************)
\* A removal that leaves the leader and follower indices as they were; the
\* properties of the indices must tell it from shifted_link.
unshifted_link(link, check_removal_index) == link

\* Step 2 of the removal: a leader or follower index that names a status
\* after the removed one is shifted down, one that names the removed status
\* becomes -1.
shifted_link(link, check_removal_index) ==
    IF link >= 0
    THEN IF check_removal_index < link THEN link - 1
         ELSE IF check_removal_index = link THEN -1
         ELSE link
    ELSE link

\* A migration that drops the code of the removed status; the properties of
\* bound code must tell it from migrated_code_source.
migrated_code_source_emptied(index, new_bound_index, removing_code) ==
    IF index = new_bound_index THEN Owned(<<>>) ELSE Bound(new_bound_index)

\* Step 1 of the removal, for the status at index that is bound to the
\* removed status: the first of them takes the code, the others are bound
\* to the first.
migrated_code_source(index, new_bound_index, removing_code) ==
    IF index = new_bound_index THEN Owned(removing_code) ELSE Bound(new_bound_index)

\* Step 1 and step 2 of the removal of the status at check_removal_index.
remove_status_at(status_elements, check_removal_index) ==
    LET removing == At(status_elements, check_removal_index)
        n == Len(status_elements)
        emptied == [status_elements EXCEPT
                      ![check_removal_index + 1].code_source = Owned(<<>>)]
        binders == {i \in 0 .. n - 1 :
                      At(emptied, i).code_source = Bound(check_removal_index)}
        new_bound_index == CHOOSE i \in binders : \A j \in binders : i <= j
        rebound == IF removing.code_source.bound \/ binders = {}
                   THEN emptied
                   ELSE [i \in 1 .. n |->
                           IF i - 1 \in binders
                           THEN [emptied[i] EXCEPT !.code_source =
                                    migrated_code_source(i - 1, new_bound_index,
                                                         removing.code_source.code)]
                           ELSE emptied[i]]
        kept == [i \in 1 .. n - 1 |->
                   IF i <= check_removal_index THEN rebound[i] ELSE rebound[i + 1]]
    IN [i \in 1 .. n - 1 |->
          [kept[i] EXCEPT
             !.follower = shifted_link(kept[i].follower, check_removal_index),
             !.leader = shifted_link(kept[i].leader, check_removal_index),
             !.code_source =
                 IF kept[i].code_source.bound /\ kept[i].code_source.index > check_removal_index
                 THEN Bound(kept[i].code_source.index - 1)
                 ELSE kept[i].code_source]]

RECURSIVE remove_status_loop(_, _, _, _, _)
remove_status_loop(status_elements, remove_x, remove_y, check_removal_index, removed_status_indices) ==
    IF check_removal_index < Len(status_elements)
    THEN LET elem == At(status_elements, check_removal_index)
         IN IF elem.location_x = remove_x /\ elem.location_y = remove_y
            THEN remove_status_loop(remove_status_at(status_elements, check_removal_index),
                                    remove_x, remove_y, check_removal_index,
                                    Append(removed_status_indices, check_removal_index))
            ELSE remove_status_loop(status_elements, remove_x, remove_y,
                                    check_removal_index + 1, removed_status_indices)
    ELSE [status_elements |-> status_elements,
          removed_status_indices |-> removed_status_indices]

remove_status_for_pos(status_elements, remove_x, remove_y) ==
    remove_status_loop(status_elements, remove_x, remove_y, 0, <<>>)

\* A move that takes the status along with the under-fields it had.
moved_status_keeping_under(status_element, to_x, to_y, to_tile) ==
    [status_element EXCEPT !.location_x = AsU8(to_x), !.location_y = AsU8(to_y)]

\* The status at the source of a move_tile, as the move leaves it.
moved_status(status_element, to_x, to_y, to_tile) ==
    [status_element EXCEPT !.location_x = AsU8(to_x), !.location_y = AsU8(to_y),
                           !.under_element_id = to_tile.element_id,
                           !.under_colour = to_tile.colour]

move_tile(sim, from_x, from_y, to_x, to_y) ==
    IF from_x = to_x /\ from_y = to_y THEN sim
    ELSE IF get_tile(sim, from_x, from_y) = None \/ get_tile(sim, to_x, to_y) = None THEN sim
    ELSE LET from_tile == get_tile(sim, from_x, from_y)[1]
             to_tile == get_tile(sim, to_x, to_y)[1]
             n == Len(sim.status_elements)
             is_at_from(i) == /\ sim.status_elements[i].location_x = AsU8(from_x)
                              /\ sim.status_elements[i].location_y = AsU8(from_y)
             moved == {i \in 1 .. n : is_at_from(i)}
             last == IF moved = {} THEN 0 ELSE CHOOSE i \in moved : \A j \in moved : j <= i
             under == IF moved = {} THEN BoardTile(0, 0)
                      ELSE BoardTile(sim.status_elements[last].under_element_id,
                                     sim.status_elements[last].under_colour)
             relocated == [i \in 1 .. n |->
                             IF is_at_from(i)
                             THEN moved_status(sim.status_elements[i], to_x, to_y, to_tile)
                             ELSE sim.status_elements[i]]
             placed == set_tile(sim, to_x, to_y, from_tile)
         IN set_tile([placed EXCEPT !.status_elements = relocated], from_x, from_y, under)

(***************************************************************************)
(* OopParser: reading the code of a status.  A parser is its code and its  *)
(* position; each reading function returns the position it leaves.         *)
(***************************************************************************)
UpperCase == <<"A", "B", "C", "D", "E", "F", "G", "H", "I", "J", "K", "L", "M",
               "N", "O", "P", "Q", "R", "S", "T", "U", "V", "W", "X", "Y", "Z">>
LowerCase == <<"a", "b", "c", "d", "e", "f", "g", "h", "i", "j", "k", "l", "m",
               "n", "o", "p", "q", "r", "s", "t", "u", "v", "w", "x", "y", "z">>
Digits == <<"0", "1", "2", "3", "4", "5", "6", "7", "8", "9">>

is_ascii_alphabetic(c) == \E i \in 1 .. 26 : c = UpperCase[i] \/ c = LowerCase[i]
is_ascii_digit(c) == \E i \in 1 .. 10 : c = Digits[i]
to_ascii_lowercase(c) ==
    IF \E i \in 1 .. 26 : c = UpperCase[i]
    THEN LowerCase[CHOOSE i \in 1 .. 26 : c = UpperCase[i]]
    ELSE c
to_ascii_uppercase(c) ==
    IF \E i \in 1 .. 26 : c = LowerCase[i]
    THEN UpperCase[CHOOSE i \in 1 .. 26 : c = LowerCase[i]]
    ELSE c
to_lower(chars) == [i \in 1 .. Len(chars) |-> to_ascii_lowercase(chars[i])]
to_upper(chars) == [i \in 1 .. Len(chars) |-> to_ascii_uppercase(chars[i])]

\* A table in which no empty slot is ever found.
first_empty_flag_never(flag_names) == None

\* WorldHeader::first_empty_flag: Option of the index of the first empty slot.
first_empty_flag(flag_names) ==
    LET empty == {i \in 0 .. Len(flag_names) - 1 : At(flag_names, i) = <<>>}
    IN IF empty = {} THEN None ELSE Some(CHOOSE i \in empty : \A j \in empty : i <= j)

\* A search for the name as it is written.
last_matching_flag_as_written(flag_names, check_flag_name) ==
    LET matching == {i \in 0 .. Len(flag_names) - 1 : At(flag_names, i) = check_flag_name}
    IN IF matching = {} THEN None
       ELSE Some(CHOOSE i \in matching : \A j \in matching : i >= j)

\* WorldHeader::last_matching_flag: Option of the index of the last slot that
\* holds the name in upper case.
last_matching_flag(flag_names, check_flag_name) ==
    LET matching == {i \in 0 .. Len(flag_names) - 1 :
                       At(flag_names, i) = to_upper(check_flag_name)}
    IN IF matching = {} THEN None
       ELSE Some(CHOOSE i \in matching : \A j \in matching : i >= j)

\* The characters of a DosString as one TLA+ string, to compare a word with a literal.
RECURSIVE DosStr(_)
DosStr(chars) == IF chars = <<>> THEN "" ELSE Head(chars) \o DosStr(Tail(chars))

RECURSIVE read_to_end_of_line(_, _)
read_to_end_of_line(code, pos) ==
    IF pos < Len(code) /\ At(code, pos) /= "\r"
    THEN read_to_end_of_line(code, pos + 1)
    ELSE pos

RECURSIVE read_word_end(_, _, _)
read_word_end(code, pos, is_first) ==
    IF pos < Len(code)
       /\ \/ ~is_first /\ is_ascii_digit(At(code, pos))
          \/ is_ascii_alphabetic(At(code, pos))
    THEN read_word_end(code, pos + 1, FALSE)
    ELSE pos

\* read_word: the word read at pos and the position after it.
read_word(code, pos) ==
    LET end == read_word_end(code, pos, TRUE)
    IN [word |-> SubSeq(code, pos + 1, end), pos |-> end]

skip_new_line(code, pos) ==
    IF pos >= 0 /\ pos < Len(code) /\ At(code, pos) = "\r" THEN pos + 1 ELSE pos

RECURSIVE skip_spaces(_, _)
skip_spaces(code, pos) ==
    IF pos >= 0 /\ pos < Len(code) /\ At(code, pos) = " "
    THEN skip_spaces(code, pos + 1)
    ELSE pos

parse_operator(code, pos) ==
    IF pos >= Len(code) THEN [op |-> "Eof", pos |-> pos]
    ELSE IF pos = Len(code) - 1 /\ At(code, pos) = "\r" THEN [op |-> "Eof", pos |-> pos]
    ELSE LET op_char == At(code, pos)
         IN CASE op_char = "@" -> [op |-> "Name", pos |-> pos + 1]
              [] op_char = "/" -> [op |-> "Move", pos |-> pos + 1]
              [] op_char = "?" -> [op |-> "TryMove", pos |-> pos + 1]
              [] op_char = ":" -> [op |-> "Label", pos |-> pos + 1]
              [] op_char = "'" -> [op |-> "Comment", pos |-> pos + 1]
              [] op_char = "#" -> [op |-> "Command", pos |-> pos + 1]
              [] OTHER -> [op |-> "Text", pos |-> pos]

\* get_name: Option of the first word after the @ sign.
get_name(code) ==
    IF parse_operator(code, 0).op = "Name" THEN Some(read_word(code, 1).word) ELSE None

get_scroll_title(code) ==
    IF parse_operator(code, 0).op = "Name"
    THEN Some(SubSeq(code, 2, read_to_end_of_line(code, 1)))
    ELSE None

\* The comparison loop of find_label: the count of matching characters, or
\* -1 where the code is indexed past its end (a panic).
RECURSIVE find_label_match(_, _, _, _)
find_label_match(code, label_to_find, pos, current_index) ==
    IF current_index < Len(label_to_find) /\ pos < Len(code)
    THEN IF pos + current_index >= Len(code) THEN -1
         ELSE IF to_ascii_lowercase(At(label_to_find, current_index))
                   /= to_ascii_lowercase(At(code, pos + current_index))
         THEN current_index
         ELSE find_label_match(code, label_to_find, pos, current_index + 1)
    ELSE current_index

\* The search loop of find_label from parser position pos: the label's
\* position (Option) and whether the search panicked.
RECURSIVE find_label_from(_, _, _)
find_label_from(code, label_to_find, pos) ==
    IF pos < Len(code)
    THEN LET op == parse_operator(code, skip_new_line(code, read_to_end_of_line(code, pos)))
             current_index == find_label_match(code, label_to_find, op.pos, 0)
         IN IF op.op /= "Label" THEN find_label_from(code, label_to_find, op.pos)
            ELSE IF current_index = -1 THEN [pos |-> None, panic |-> TRUE]
            ELSE IF current_index /= Len(label_to_find)
            THEN find_label_from(code, label_to_find, op.pos)
            ELSE IF op.pos + current_index >= Len(code) THEN [pos |-> None, panic |-> TRUE]
            ELSE LET char_after == At(code, op.pos + current_index)
                 IN IF is_ascii_alphabetic(char_after) \/ char_after = "_"
                    THEN find_label_from(code, label_to_find, op.pos)
                    ELSE [pos |-> Some(read_to_end_of_line(code, op.pos)), panic |-> FALSE]
    ELSE [pos |-> None, panic |-> FALSE]

\* A search that has no special label.
find_label_among_labels(code, label_to_find) ==
    find_label_from(code, label_to_find, 0)

find_label(code, label_to_find) ==
    IF DosStr(label_to_find) = "restart" THEN [pos |-> Some(0), panic |-> FALSE]
    ELSE find_label_from(code, label_to_find, 0)

\* The search loop of zap_label from parser position pos: Option of the
\* position of the label found.
RECURSIVE zap_pos_from(_, _, _)
zap_pos_from(code, label_to_find, pos) ==
    IF pos < Len(code)
    THEN LET op_pos == skip_new_line(code, read_to_end_of_line(code, pos))
             op == parse_operator(code, op_pos)
             label == read_word(code, op.pos)
         IN IF op.op /= "Label" THEN zap_pos_from(code, label_to_find, op.pos)
            ELSE IF to_lower(label.word) = label_to_find THEN Some(op_pos)
            ELSE zap_pos_from(code, label_to_find, label.pos)
    ELSE None

\* zap_label: the code with the label zapped.
zap_label(code, label_to_find) ==
    LET zap_pos_opt == zap_pos_from(code, label_to_find, 0)
    IN IF zap_pos_opt = None THEN code
       ELSE [code EXCEPT ![zap_pos_opt[1] + 1] = "'"]

(***************************************************************************)
(* Actions and board messages (the variants the modelled code emits).      *)
(***************************************************************************)
SetTile(x, y, tile, status_element) ==
    [type |-> "SetTile", x |-> x, y |-> y, tile |-> tile, status_element |-> status_element]
MoveTile(from_x, from_y, to_x, to_y, offset_x, offset_y, check_push, is_player) ==
    [type |-> "MoveTile", from_x |-> from_x, from_y |-> from_y, to_x |-> to_x, to_y |-> to_y,
     offset_x |-> offset_x, offset_y |-> offset_y, check_push |-> check_push,
     is_player |-> is_player]
SendBoardMessage(board_message) ==
    [type |-> "SendBoardMessage", board_message |-> board_message]
SetCodeCurrentInstruction(status_index, code_current_instruction) ==
    [type |-> "SetCodeCurrentInstruction", status_index |-> status_index,
     code_current_instruction |-> code_current_instruction]
OpenScroll(title, content_lines) ==
    [type |-> "OpenScroll", title |-> title, content_lines |-> content_lines]
\* A PlaySoundArray message; the notes it carries are not modelled.
PlaySoundArray == [type |-> "PlaySoundArray"]

(***************************************************************************)
(* Direction.                                                              *)
(***************************************************************************)
to_offset ==
    [West |-> <<-1, 0>>, East |-> <<1, 0>>, North |-> <<0, -1>>, South |-> <<0, 1>>,
     Idle |-> <<0, 0>>]
from_offset(x, y) ==
    CASE x = -1 /\ y = 0 -> "West"
      [] x = 1 /\ y = 0 -> "East"
      [] x = 0 /\ y = -1 -> "North"
      [] x = 0 /\ y = 1 -> "South"
      [] OTHER -> "Idle"
opposite == [West |-> "East", East |-> "West", North |-> "South", South |-> "North", Idle |-> "Idle"]
cw == [North |-> "East", East |-> "South", South |-> "West", West |-> "North", Idle |-> "Idle"]
ccw == [North |-> "West", East |-> "North", South |-> "East", West |-> "South", Idle |-> "Idle"]

(***************************************************************************)
(* OopParser: directions, tile descriptions, messages.                     *)
(***************************************************************************)
\* parse_direction: Ok(direction) or Err(word), and the position left.  The
\* random directions (seek off an axis, rndne, rndns, rndp) are read by no
\* modelled script and are left out.
parse_direction(code, pos, status) ==
    LET w == read_word(code, pos)
        word == DosStr(to_lower(w.word))
        inner == Call("parse_direction", <<code, skip_spaces(code, w.pos), status>>)
        ok(direction) == [ok |-> TRUE, direction |-> direction, pos |-> w.pos, word |-> w.word]
        turned(table) == IF inner.ok THEN [inner EXCEPT !.direction = table[inner.direction]]
                         ELSE inner
    IN CASE word \in {"e", "east"} -> ok("East")
         [] word \in {"w", "west"} -> ok("West")
         [] word \in {"n", "north"} -> ok("North")
         [] word \in {"s", "south"} -> ok("South")
         [] word \in {"i", "idle"} -> ok("Idle")
         [] word = "flow" -> ok(from_offset(status.step_x, status.step_y))
         [] word = "cw" -> turned(cw)
         [] word = "ccw" -> turned(ccw)
         [] word = "opp" -> turned(opposite)
         [] OTHER -> [ok |-> FALSE, direction |-> "Idle", pos |-> w.pos, word |-> to_lower(w.word)]

ConsoleColour ==
    [blue |-> 9, green |-> 10, cyan |-> 11, red |-> 12, purple |-> 13, yellow |-> 14,
     white |-> 15]

\* parse_type, for the element types the model gives a behaviour.
ElementTypeNames ==
    [boulder |-> ElementType.Boulder, empty |-> ElementType.Empty, gem |-> ElementType.Gem,
     head |-> ElementType.Head, normal |-> ElementType.Normal,
     object |-> ElementType.Object, scroll |-> ElementType.Scroll,
     segment |-> ElementType.Segment, solid |-> ElementType.Solid]

parse_tile_type_desc(code, pos) ==
    LET colour_word == read_word(code, pos)
        colour_name == DosStr(to_lower(colour_word.word))
        has_colour == colour_name \in DOMAIN ConsoleColour
        type_pos == IF has_colour THEN skip_spaces(code, colour_word.pos) ELSE pos
        type_word == read_word(code, type_pos)
        type_name == DosStr(to_lower(type_word.word))
    IN IF type_name \in DOMAIN ElementTypeNames
       THEN [ok |-> TRUE, element_id |-> ElementTypeNames[type_name],
             colour |-> IF has_colour THEN Some(ConsoleColour[colour_name]) ELSE None,
             pos |-> type_word.pos, word |-> <<>>]
       ELSE [ok |-> FALSE, element_id |-> 0, colour |-> None, pos |-> type_word.pos,
             word |-> to_lower(type_word.word)]

create_tile_action(tile_desc, x, y) ==
    LET colour == IF tile_desc.colour /= None THEN tile_desc.colour[1] ELSE 15
        tile == BoardTile(tile_desc.element_id, colour)
        status_element ==
            IF tile_desc.element_id \in
                 {ElementType.Bullet, ElementType.Head, ElementType.Lion,
                  ElementType.Object, ElementType.Scroll, ElementType.Segment}
            THEN Some([StatusElementDefault EXCEPT
                         !.location_x = x, !.location_y = y, !.cycle = 3])
            ELSE IF tile_desc.element_id = ElementType.Star
            THEN Some([StatusElementDefault EXCEPT
                         !.location_x = x, !.location_y = y, !.cycle = 1, !.param2 = 255])
            ELSE None
    IN SetTile(x, y, tile, status_element)

\* parse_message: the receiver, the label and the position left.
RECURSIVE parse_number_from(_, _, _)
parse_number_from(code, pos, num) ==
    IF pos < Len(code) /\ is_ascii_digit(At(code, pos))
    THEN parse_number_from(code, pos + 1,
                           (num * 10) + (CHOOSE d \in 0 .. 9 : Digits[d + 1] = At(code, pos)))
    ELSE [num |-> num, pos |-> pos]

\* parse_number: Err when there is no digit at pos.
parse_number(code, pos) ==
    LET parsed == parse_number_from(code, pos, 0)
    IN [ok |-> parsed.pos /= pos, num |-> parsed.num, pos |-> parsed.pos, word |-> <<>>]

parse_player_item(code, pos) ==
    LET w == read_word(code, pos)
        word == DosStr(to_lower(w.word))
        ok(item_type) == [ok |-> TRUE, item_type |-> item_type, pos |-> w.pos, word |-> w.word]
    IN CASE word = "ammo" -> ok("Ammo")
         [] word = "torches" -> ok("Torches")
         [] word = "gems" -> ok("Gems")
         [] word = "health" -> ok("Health")
         [] word = "score" -> ok("Score")
         [] word = "time" -> ok("Time")
         [] OTHER -> [ok |-> FALSE, item_type |-> "", pos |-> w.pos,
                      word |-> <<"B", "a", "d", " ", "i", "t", "e", "m", ":", " ">> \o w.word]

\* A #take that takes what the player has when the player has less.
take_action_inexact(item_type, take_num) ==
    [type |-> "ModifyPlayerItem", item_type |-> item_type,
     offset |-> IF item_type = "Time" THEN AsI16(take_num) ELSE -AsI16(take_num),
     require_exact_amount |-> FALSE]

\* The action a #take pushes.
take_action(item_type, take_num) ==
    [type |-> "ModifyPlayerItem", item_type |-> item_type,
     offset |-> IF item_type = "Time" THEN AsI16(take_num) ELSE -AsI16(take_num),
     require_exact_amount |-> item_type /= "Time"]

parse_message(code, pos) ==
    LET first == read_word(code, skip_spaces(code, pos))
        has_receiver == first.pos >= 0 /\ first.pos < Len(code) /\ At(code, first.pos) = ":"
        second == read_word(code, first.pos + 1)
        name == to_lower(first.word)
    IN IF has_receiver
       THEN [receiver |-> IF DosStr(name) = "all" THEN [kind |-> "All", name |-> <<>>]
                          ELSE IF DosStr(name) = "others" THEN [kind |-> "Others", name |-> <<>>]
                          ELSE [kind |-> "Name", name |-> name],
             label |-> to_lower(second.word), pos |-> second.pos]
       ELSE [receiver |-> [kind |-> "Myself", name |-> <<>>], label |-> name, pos |-> first.pos]

(***************************************************************************)
(* OopParser::parse_command and parse_action.  A parse p carries the       *)
(* parser (code, pos), the actions pushed so far, the fields of the        *)
(* OopExecutionState a command writes, the ParseActionOutcome, the Err of  *)
(* the Result (an Option) and whether the parser panicked.                 *)
(***************************************************************************)
end_line(p, pos) ==
    [p EXCEPT !.pos = skip_new_line(p.code, read_to_end_of_line(p.code, pos))]

push_action(p, action) == [p EXCEPT !.actions = Append(p.actions, action)]

\* OopParser::new, with the fields the parse of an action fills in.
OopParser(code, pos) ==
    [code |-> code, code_modified |-> FALSE, pos |-> pos, actions |-> <<>>,
     text_message_content_lines |-> <<>>, action_to_check_on_next_step |-> None,
     finish_immediately |-> FALSE, dont_progress |-> FALSE, bad_direction |-> None,
     err |-> None, panic |-> FALSE]

\* The Jump and Zap arms; RestoreZztStyle is not modelled.
apply_label_operation(p, label, label_op) ==
    LET found == Call("find_label", <<p.code, label>>)
        zapped == zap_label(p.code, label)
    IN IF label_op = "Zap"
       THEN IF zapped = p.code THEN p ELSE [p EXCEPT !.code = zapped, !.code_modified = TRUE]
       ELSE IF found.panic THEN [p EXCEPT !.panic = TRUE]
       ELSE IF found.pos /= None THEN [p EXCEPT !.pos = found.pos[1]]
       ELSE p

apply_message_desc_label_operation(p, message_desc, label_op, status_index) ==
    LET receiver == message_desc.receiver
        includes_myself ==
            \/ receiver.kind \in {"Myself", "All"}
            \/ receiver.kind = "Name" /\ get_name(p.code) = Some(receiver.name)
        includes_others == receiver.kind \in {"All", "Others", "Name"}
        mine == IF includes_myself THEN apply_label_operation(p, message_desc.label, label_op)
                ELSE p
    IN IF includes_others
       THEN push_action(mine,
                [type |-> "OthersApplyLabelOperation",
                 current_status_index |-> Some(status_index),
                 receiver_name_opt |-> IF receiver.kind = "Name" THEN Some(receiver.name) ELSE None,
                 label |-> message_desc.label, operation |-> label_op])
       ELSE mine

\* The commands the modelled scripts use; any other word takes the
\* unrecognised-command arm, as in the source.
parse_command(p, status_index, status, sim) ==
    LET message_desc == Call("parse_message", <<p.code, p.pos>>)
        command_name == DosStr(message_desc.label)
        at == [p EXCEPT !.pos = message_desc.pos]
        after_spaces == skip_spaces(p.code, message_desc.pos)
        direction == Call("parse_direction", <<p.code, after_spaces, status>>)
        offset == to_offset[direction.direction]
        own_move == MoveTile(status.location_x, status.location_y,
                             status.location_x + offset[1], status.location_y + offset[2],
                             offset[1], offset[2], TRUE, FALSE)
        failed(parsed) == [at EXCEPT !.pos = parsed.pos, !.err = Some(parsed.word)]
    IN IF message_desc.receiver.kind /= "Myself"
       THEN Call("apply_message_desc_label_operation", <<
                [at EXCEPT !.pos = skip_new_line(p.code, message_desc.pos)],
                message_desc, "Jump", status_index>>)
       ELSE CASE command_name = "" -> at
         [] command_name = "become" ->
              IF Len(p.text_message_content_lines) <= 1
              THEN LET become_desc == Call("parse_tile_type_desc", <<p.code, after_spaces>>)
                   IN IF ~become_desc.ok THEN failed(become_desc)
                      ELSE [push_action(end_line(at, become_desc.pos),
                                create_tile_action(become_desc, status.location_x, status.location_y))
                              EXCEPT !.finish_immediately = TRUE]
              ELSE [at EXCEPT !.finish_immediately = FALSE, !.dont_progress = TRUE]
         [] command_name = "bind" ->
              LET bind_name == read_word(p.code, after_spaces)
                  named == {i \in 0 .. Len(sim.status_elements) - 1 :
                              /\ ~At(sim.status_elements, i).code_source.bound
                              /\ get_name(At(sim.status_elements, i).code_source.code)
                                   = Some(bind_name.word)}
                  bind_to_index == CHOOSE i \in named : \A j \in named : i <= j
                  done == end_line(at, bind_name.pos)
              IN IF named = {} THEN done
                 ELSE push_action(
                        push_action(done, [type |-> "BindCodeToIndex",
                                           status_index |-> status_index,
                                           bind_to_index |-> bind_to_index]),
                        SetCodeCurrentInstruction(status_index, 0))
         [] command_name = "die" ->
              IF Len(p.text_message_content_lines) <= 1
              THEN [push_action(at, SetTile(status.location_x, status.location_y,
                                            BoardTile(ElementType.Empty, 0), None))
                      EXCEPT !.finish_immediately = TRUE]
              ELSE [at EXCEPT !.finish_immediately = FALSE, !.dont_progress = TRUE]
         [] command_name = "end" -> [at EXCEPT !.finish_immediately = TRUE, !.pos = -1]
         [] command_name = "go" ->
              IF ~direction.ok THEN failed(direction)
              ELSE IF direction.direction /= "Idle"
              THEN LET moved == end_line(push_action(at, own_move), direction.pos)
                   IN [moved EXCEPT
                         !.action_to_check_on_next_step =
                             Some([type |-> "Move", instruction_when_not_blocked |-> moved.pos]),
                         !.dont_progress = TRUE]
              ELSE [at EXCEPT !.pos = direction.pos, !.dont_progress = TRUE]
         [] command_name = "idle" ->
              [end_line(at, message_desc.pos) EXCEPT !.finish_immediately = TRUE]
         [] command_name = "lock" ->
              end_line(push_action(at, [type |-> "SetStatusParam2", value |-> 1,
                                        status_index |-> status_index]), message_desc.pos)
         [] command_name = "put" ->
              LET put_desc == Call("parse_tile_type_desc", <<p.code, skip_spaces(p.code, direction.pos)>>)
                  dest_x == status.location_x + offset[1]
                  dest_y == status.location_y + offset[2]
                  done == end_line(at, put_desc.pos)
              IN IF ~direction.ok THEN failed(direction)
                 ELSE IF ~put_desc.ok THEN failed(put_desc)
                 ELSE IF offset[1] = 0 /\ offset[2] = 0
                 THEN [done EXCEPT !.err = Some(<<"B", "a", "d", " ", "#", "P", "U", "T">>)]
                 ELSE IF /\ dest_y < BOARD_HEIGHT - 2 /\ dest_y >= 1
                         /\ dest_x < BOARD_WIDTH - 1 /\ dest_x >= 1
                 THEN [push_action(done, [type |-> "PushTile", x |-> dest_x, y |-> dest_y,
                                          offset_x |-> offset[1], offset_y |-> offset[2]])
                         EXCEPT !.action_to_check_on_next_step =
                                    Some([type |-> "Put", direction |-> direction.direction,
                                          tile_type |-> put_desc])]
                 ELSE done
         [] command_name = "send" ->
              LET send_message_desc == Call("parse_message", <<p.code, after_spaces>>)
              IN Call("apply_message_desc_label_operation", <<end_line(at, send_message_desc.pos),
                                                    send_message_desc, "Jump", status_index>>)
         [] command_name = "clear" ->
              LET flag_name == read_word(p.code, after_spaces)
              IN push_action(end_line(at, flag_name.pos),
                             [type |-> "ClearFlag", name |-> flag_name.word])
         [] command_name = "set" ->
              LET flag_name == read_word(p.code, after_spaces)
              IN push_action(end_line(at, flag_name.pos),
                             [type |-> "SetFlag", name |-> flag_name.word])
         [] command_name = "take" ->
              LET item == parse_player_item(p.code, after_spaces)
                  take_num == parse_number(p.code, skip_spaces(p.code, item.pos))
              IN IF ~item.ok THEN failed(item)
                 ELSE IF ~take_num.ok THEN [at EXCEPT !.pos = take_num.pos]
                 ELSE [push_action([at EXCEPT !.pos = take_num.pos],
                                   take_action(item.item_type, take_num.num))
                         EXCEPT !.action_to_check_on_next_step = Some([type |-> "Take"])]
         [] command_name = "unlock" ->
              end_line(push_action(at, [type |-> "SetStatusParam2", value |-> 0,
                                        status_index |-> status_index]), message_desc.pos)
         [] command_name = "walk" ->
              IF ~direction.ok THEN failed(direction)
              ELSE push_action(end_line(at, direction.pos),
                               [type |-> "SetStep", status_index |-> status_index,
                                step_x |-> offset[1], step_y |-> offset[2]])
         [] command_name = "zap" ->
              LET send_message_desc == Call("parse_message", <<p.code, after_spaces>>)
              IN Call("apply_message_desc_label_operation", <<end_line(at, send_message_desc.pos),
                                                    send_message_desc, "Zap", status_index>>)
         [] OTHER ->
              LET found == Call("find_label", <<p.code, message_desc.label>>)
              IN IF found.panic THEN [at EXCEPT !.panic = TRUE]
                 ELSE IF found.pos /= None THEN [at EXCEPT !.pos = found.pos[1]]
                 ELSE [at EXCEPT !.err =
                         Some(<<"U", "n", "k", "n", "o", "w", "n", " ", "c", "o", "m", "m",
                                "a", "n", "d", ":", " ">> \o message_desc.label)]

parse_action(p, status_index, status, sim) ==
    LET operator == parse_operator(p.code, p.pos)
        at == [p EXCEPT !.pos = operator.pos]
        direction == Call("parse_direction", <<p.code, operator.pos, status>>)
        offset == to_offset[direction.direction]
        moved == [(IF direction.ok
                   THEN push_action(at, MoveTile(status.location_x, status.location_y,
                                                 status.location_x + offset[1],
                                                 status.location_y + offset[2],
                                                 offset[1], offset[2], TRUE, FALSE))
                   ELSE [at EXCEPT !.bad_direction = Some(direction.word)])
                    EXCEPT !.pos = direction.pos]
        line_end == read_to_end_of_line(p.code, operator.pos)
        line == SubSeq(p.code, operator.pos + 1, line_end)
    IN CASE operator.op \in {"Name", "Label", "Comment"} -> end_line(at, operator.pos)
         [] operator.op = "Move" ->
              [moved EXCEPT
                 !.action_to_check_on_next_step =
                     Some([type |-> "Move", instruction_when_not_blocked |-> direction.pos]),
                 !.dont_progress = TRUE]
         [] operator.op = "TryMove" -> [moved EXCEPT !.finish_immediately = TRUE]
         [] operator.op = "Command" -> Call("parse_command", <<at, status_index, status, sim>>)
         [] operator.op = "Text" ->
              [at EXCEPT
                 !.text_message_content_lines =
                     IF Len(line) > 0 \/ Len(p.text_message_content_lines) > 0
                     THEN Append(@, SubSeq(line, 1, IF Len(line) < 50 THEN Len(line) ELSE 50))
                     ELSE @,
                 !.pos = skip_new_line(p.code, line_end)]
         [] operator.op = "Eof" -> [at EXCEPT !.pos = -1, !.finish_immediately = TRUE]

\* BoardSimulator::get_status_index_code: the status owning the code, -1 when
\* an index is out of range (panic) and -2 when the loop never ends.
RECURSIVE get_status_index_code(_, _, _)
get_status_index_code(status_elements, current_index, fuel) ==
    IF current_index >= Len(status_elements) THEN -1
    ELSE IF ~At(status_elements, current_index).code_source.bound THEN current_index
    ELSE IF fuel = 0 THEN -2
    ELSE get_status_index_code(status_elements,
                               At(status_elements, current_index).code_source.index, fuel - 1)

get_status_code(status_elements, status) ==
    LET owner == IF status.code_source.bound
                 THEN get_status_index_code(status_elements, status.code_source.index,
                                            Len(status_elements))
                 ELSE 0
    IN [fault |-> CASE owner = -1 -> "index panic" [] owner = -2 -> "hang" [] OTHER -> "none",
        code |-> IF ~status.code_source.bound THEN status.code_source.code
                 ELSE IF owner >= 0 THEN At(status_elements, owner).code_source.code
                 ELSE <<>>]

OopExecutionState(delete_after, override_working_status_index) ==
    [kind |-> "Oop", delete_after |-> delete_after,
     override_working_status_index |-> override_working_status_index,
     executed_operation_count |-> 0, text_message_content_lines |-> <<>>,
     action_to_check_on_next_step |-> None, current_start_of_action_pos |-> None]

\* Returns the parse with is_finished decided in finish_immediately.
apply_outcome_result(p, current_start_of_action_pos) ==
    IF p.panic THEN p
    ELSE IF p.err /= None
    THEN [push_action(p, SendBoardMessage(OpenScroll(<<>>, <<p.err[1]>>)))
            EXCEPT !.finish_immediately = TRUE]
    ELSE IF p.dont_progress
    THEN IF current_start_of_action_pos /= None
         THEN [p EXCEPT !.pos = current_start_of_action_pos[1]]
         ELSE [p EXCEPT !.panic = TRUE]
    ELSE p

MAX_OPERATIONS == 64

\* A check of a move that advances whether or not the move was blocked; the
\* properties of the moves of a script must tell it from moved_cursor.
moved_cursor_advancing(pos, move_was_blocked, instruction_when_not_blocked) ==
    instruction_when_not_blocked

\* OopAsyncAction::Move: the cursor after the move of a / or a #go.
moved_cursor(pos, move_was_blocked, instruction_when_not_blocked) ==
    IF move_was_blocked = "NotBlocked" THEN instruction_when_not_blocked ELSE pos

oop_next_step(k, apply_action_report, status_index, sim) ==
    LET working_status_index ==
            IF k.override_working_status_index /= None
            THEN k.override_working_status_index[1] ELSE status_index
        in_range == working_status_index < Len(sim.status_elements)
        status == At(sim.status_elements, working_status_index)
        source == Call("get_status_code", <<sim.status_elements, status>>)
        async == k.action_to_check_on_next_step
        p0 == [OopParser(source.code, status.code_current_instruction)
                 EXCEPT !.text_message_content_lines = k.text_message_content_lines]
        skipped == end_line(p0, p0.pos)
        reparsed == apply_outcome_result(Call("parse_command", <<p0, working_status_index, status, sim>>),
                                         k.current_start_of_action_pos)
        dest == [x |-> status.location_x + to_offset[async[1].direction][1],
                 y |-> status.location_y + to_offset[async[1].direction][2]]
        dest_tile == get_tile(sim, dest.x, dest.y)
        p == IF async = None
             THEN apply_outcome_result(Call("parse_action", <<p0, working_status_index, status, sim>>),
                                       Some(p0.pos))
             ELSE CASE async[1].type = "Move" ->
                         [p0 EXCEPT !.pos = moved_cursor(@, apply_action_report.move_was_blocked,
                                                         async[1].instruction_when_not_blocked),
                                    !.finish_immediately = TRUE]
                    [] async[1].type = "TryMove" ->
                         IF apply_action_report.move_was_blocked = "Blocked" THEN reparsed
                         ELSE [skipped EXCEPT !.finish_immediately = TRUE]
                    [] async[1].type = "Put" ->
                         IF dest_tile = None THEN p0
                         ELSE IF dest_tile[1].element_id = async[1].tile_type.element_id
                         THEN IF async[1].tile_type.colour /= None
                              THEN push_action(p0, [type |-> "SetColour", x |-> dest.x,
                                                    y |-> dest.y,
                                                    colour |-> async[1].tile_type.colour[1]])
                              ELSE p0
                         ELSE push_action(p0, create_tile_action(async[1].tile_type,
                                                                 AsU8(dest.x), AsU8(dest.y)))
                    [] async[1].type = "Take" ->
                         IF apply_action_report.take_player_item_failed THEN reparsed
                         ELSE skipped
        executed_operation_count == k.executed_operation_count + 1
        set_pos == IF p.pos /= status.code_current_instruction
                   THEN <<SetCodeCurrentInstruction(working_status_index, p.pos)>> ELSE <<>>
        set_code == IF p.code_modified
                    THEN <<[type |-> "SetCode", status_index |-> working_status_index,
                            code |-> p.code]>>
                    ELSE <<>>
        finished(actions) == [continuation |-> k, actions |-> actions, finished |-> TRUE,
                              fault |-> "none", info |-> None]
    IN IF ~in_range THEN [finished(<<>>) EXCEPT !.fault = "index panic"]
       ELSE IF status.code_current_instruction < 0 THEN finished(<<>>)
       ELSE IF source.fault /= "none" THEN [finished(<<>>) EXCEPT !.fault = source.fault]
       ELSE IF p.panic THEN [finished(<<>>) EXCEPT !.fault = "panic"]
       ELSE [continuation |->
                 [k EXCEPT !.executed_operation_count = executed_operation_count,
                           !.text_message_content_lines = p.text_message_content_lines,
                           !.action_to_check_on_next_step = p.action_to_check_on_next_step,
                           !.current_start_of_action_pos =
                               IF async = None /\ ~p.dont_progress THEN Some(p0.pos)
                               ELSE IF p.dont_progress /\ p.err = None THEN None ELSE @],
             actions |-> set_pos \o p.actions \o set_code,
             finished |-> p.finish_immediately \/ executed_operation_count > MAX_OPERATIONS,
             fault |-> "none",
             info |-> Some([tag |-> status.param3, start |-> status.code_current_instruction,
                            pos |-> p.pos, err |-> p.err /= None, code |-> source.code,
                            async |-> IF async = None THEN "None" ELSE async[1].type,
                            move_was_blocked |-> apply_action_report.move_was_blocked,
                            take_player_item_failed |->
                                apply_action_report.take_player_item_failed,
                            action_start |-> k.current_start_of_action_pos,
                            actions |-> p.actions,
                            checks |-> p.action_to_check_on_next_step /= None,
                            bad_direction |-> p.bad_direction /= None,
                            finished |-> p.finish_immediately,
                            scrolls |-> SelectSeq(p.actions, LAMBDA a :
                                          /\ a.type = "SendBoardMessage"
                                          /\ a.board_message.type = "OpenScroll")])]

oop_finalise(k, status_opt, sim) ==
    LET source == Call("get_status_code", <<sim.status_elements, status_opt[1]>>)
        scroll_title == IF status_opt = None THEN None ELSE get_scroll_title(source.code)
        title == IF scroll_title /= None THEN scroll_title[1]
                 ELSE <<"I", "n", "t", "e", "r", "a", "c", "t", "i", "o", "n">>
        message == IF Len(k.text_message_content_lines) > 0
                   THEN <<SendBoardMessage(OpenScroll(title, k.text_message_content_lines))>>
                   ELSE <<>>
        erase(status) == <<SetTile(status.location_x, status.location_y,
                                   BoardTile(ElementType.Empty, 0), None)>>
        override == k.override_working_status_index
        delete == IF ~k.delete_after THEN <<>>
                  ELSE IF override /= None THEN erase(At(sim.status_elements, override[1]))
                  ELSE IF status_opt /= None THEN erase(status_opt[1])
                  ELSE <<>>
        fault == IF Len(k.text_message_content_lines) > 0 /\ status_opt /= None
                    /\ source.fault /= "none"
                 THEN source.fault
                 ELSE IF k.delete_after /\ override /= None
                         /\ override[1] >= Len(sim.status_elements)
                 THEN "index panic" ELSE "none"
    IN [actions |-> IF fault = "none" THEN message \o delete ELSE <<>>,
        continuation |-> [k EXCEPT !.text_message_content_lines = <<>>],
        fault |-> fault]

(***************************************************************************)
(* Behaviours.  A behaviour is named by the element id of its tile (-1 for *)
(* DEFAULT_BEHAVIOUR); elements without a registered behaviour take the    *)
(* trait defaults.                                                         *)
(***************************************************************************)
ActionResult(actions, continuation) ==
    [actions |-> actions, continuation |-> continuation, fault |-> "none"]

PushResult(blocked_status, actions, continuation) ==
    [blocked |-> blocked_status, action_result |-> ActionResult(actions, continuation)]

ModifyPlayerItem(item_type, offset) ==
    [type |-> "ModifyPlayerItem", item_type |-> item_type, offset |-> offset,
     require_exact_amount |-> FALSE]

\* A BlockedStatus that lets nothing in; the properties of the move of the
\* player must tell it from blocked.
blocked_by_all(element_id, is_player) == "Blocked"

blocked(element_id, is_player) ==
    IF element_id \in {ElementType.Empty, ElementType.Fake} THEN "NotBlocked"
    ELSE IF element_id = ElementType.Player /\ is_player THEN "NotBlocked"
    ELSE "Blocked"

can_squash(element_id) == element_id = ElementType.Boulder

can_be_squashed(element_id) ==
    element_id \in {ElementType.Gem, ElementType.Head, ElementType.Segment}

locked(element_id, status) == element_id = ElementType.Object /\ status.param2 > 0

get_player_location(sim) ==
    [x |-> At(sim.status_elements, 0).location_x, y |-> At(sim.status_elements, 0).location_y]

has_player_at_location(sim, x, y) ==
    get_tile(sim, x, y) /= None /\ get_tile(sim, x, y)[1].element_id = ElementType.Player

\* Behaviour::damage for DamageType::Other, the damage a touching monster deals.
damage_other(sim, x, y) ==
    LET element_id == behaviour_for_pos(sim, x, y)
        status_opt == get_first_status_for_pos(sim, x, y)
        status == At(sim.status_elements, status_opt[1])
    IN IF element_id = ElementType.Player
       THEN IF sim.world_header.energy_cycles <= 0
            THEN <<SendBoardMessage(PlaySoundArray),
                   SendBoardMessage(OpenScroll(<<>>, <<<<"O", "u", "c", "h", "!">>>>)),
                   ModifyPlayerItem("Health", -10), [type |-> "CheckRestartOnZapped"]>>
            ELSE <<>>
       ELSE IF element_id \in {ElementType.Head, ElementType.Segment} /\ status_opt /= None
       THEN <<SetTile(x, y, BoardTile(status.under_element_id, status.under_colour), None),
              SendBoardMessage(PlaySoundArray)>>
       ELSE <<>>

\* Behaviour::destructable of the behaviour of element_id.
destructable(element_id) ==
    element_id \in {ElementType.Empty, ElementType.Player, ElementType.Gem,
                    ElementType.Bullet, ElementType.Breakable, ElementType.Fake,
                    ElementType.Lion, ElementType.Head, ElementType.Segment}

\* A bullet that everything blocks.
blocked_for_bullets_by_all(element_id) == "Blocked"

\* Behaviour::blocked_for_bullets of the behaviour of element_id.
blocked_for_bullets(element_id) ==
    IF element_id = ElementType.Water THEN "NotBlocked" ELSE blocked(element_id, FALSE)

\* Behaviour::damage of the behaviour at x/y for a DamageType::Shot: the
\* actions it pushes, and the fault of the search for the label shot.
damage_shot(sim, x, y, by_player) ==
    LET element_id == behaviour_for_pos(sim, x, y)
        status_opt == get_first_status_for_pos(sim, x, y)
        status == At(sim.status_elements, status_opt[1])
        tile_opt == get_tile(sim, x, y)
        source == Call("get_status_code", <<sim.status_elements, status>>)
        shot == Call("find_label", <<source.code, <<"s", "h", "o", "t">>>>)
        default_damage_impl ==
            IF destructable(element_id)
            THEN <<SendBoardMessage(PlaySoundArray)>>
                 \o (IF tile_opt /= None
                     THEN <<SetTile(x, y, BoardTile(ElementType.Empty, tile_opt[1].colour),
                                    None)>>
                     ELSE <<>>)
            ELSE <<>>
        pushed(actions) == [actions |-> actions, fault |-> "none"]
    IN CASE element_id = ElementType.Player ->
              IF sim.world_header.energy_cycles <= 0
              THEN pushed(<<SendBoardMessage(PlaySoundArray),
                            SendBoardMessage(OpenScroll(<<>>, <<<<"O", "u", "c", "h", "!">>>>)),
                            ModifyPlayerItem("Health", -10),
                            [type |-> "CheckRestartOnZapped"]>>)
              ELSE pushed(<<>>)
         [] element_id \in {ElementType.Head, ElementType.Segment, ElementType.Lion} ->
              IF status_opt /= None
              THEN pushed(<<SetTile(x, y, BoardTile(status.under_element_id,
                                                    status.under_colour), None),
                            SendBoardMessage(PlaySoundArray)>>)
              ELSE pushed(default_damage_impl)
         [] element_id = ElementType.Object ->
              IF status_opt = None THEN pushed(default_damage_impl)
              ELSE IF locked(element_id, status) THEN pushed(<<>>)
              ELSE IF source.fault /= "none" THEN [actions |-> <<>>, fault |-> source.fault]
              ELSE IF shot.panic THEN [actions |-> <<>>, fault |-> "panic"]
              ELSE IF shot.pos /= None
              THEN pushed(<<SetCodeCurrentInstruction(status_opt[1], shot.pos[1])>>)
              ELSE pushed(<<>>)
         [] element_id = ElementType.Gem ->
              IF by_player THEN pushed(default_damage_impl) ELSE pushed(<<>>)
         [] OTHER -> pushed(default_damage_impl)

add_monster_touch_player_actions(x, y, sim) ==
    LET status_opt == get_first_status_for_pos(sim, x, y)
        status == At(sim.status_elements, status_opt[1])
        player == get_player_location(sim)
    IN IF status_opt = None THEN <<>>
       ELSE <<SetTile(x, y, BoardTile(status.under_element_id, status.under_colour), None)>>
            \o Call("damage_other", <<sim, player.x, player.y>>)
            \o (IF sim.world_header.energy_cycles <= 0
                THEN <<ModifyPlayerItem("Health", -10), [type |-> "CheckRestartOnZapped"]>>
                ELSE <<>>)

\* Behaviour::push of the behaviour at x/y.
push(sim, x, y, push_off_x, push_off_y, is_player) ==
    LET element_id == behaviour_for_pos(sim, x, y)
        status_opt == get_first_status_for_pos(sim, x, y)
        status == At(sim.status_elements, status_opt[1])
        moved == <<MoveTile(x, y, x + push_off_x, y + push_off_y, push_off_x, push_off_y,
                            TRUE, FALSE)>>
        exits == sim.board_meta_data
        direction == from_offset(push_off_x, push_off_y)
        source == Call("get_status_code", <<sim.status_elements, status>>)
        touch == Call("find_label", <<source.code, <<"t", "o", "u", "c", "h">>>>)
        touched == is_player /\ status_opt /= None /\ ~locked(element_id, status)
    IN CASE element_id \in {ElementType.Empty, ElementType.Fake} ->
              PushResult("NotBlocked", <<>>, None)
         [] element_id = ElementType.BoardEdge ->
              IF is_player
              THEN PushResult("Blocked",
                     <<SendBoardMessage(
                         [type |-> "SwitchBoard",
                          new_board_index |-> CASE direction = "North" -> exits.exit_north
                                                [] direction = "South" -> exits.exit_south
                                                [] direction = "West" -> exits.exit_west
                                                [] direction = "East" -> exits.exit_east
                                                [] OTHER -> 0,
                          direction |-> direction])>>, None)
              ELSE PushResult("Blocked", <<>>, None)
         [] element_id = ElementType.Player ->
              IF is_player THEN PushResult("NotBlocked", <<>>, None)
              ELSE PushResult("NotBlocked", moved, None)
         [] element_id = ElementType.Gem ->
              IF is_player
              THEN PushResult("NotBlocked",
                     <<SendBoardMessage(PlaySoundArray),
                       SetTile(x, y, BoardTile(ElementType.Empty, 0), None),
                       ModifyPlayerItem("Gems", 1), ModifyPlayerItem("Score", 10),
                       ModifyPlayerItem("Health", 1)>>, None)
              ELSE PushResult("NotBlocked", moved, None)
         [] element_id = ElementType.Scroll ->
              IF is_player
              THEN IF status_opt /= None
                   THEN PushResult("Blocked", <<SendBoardMessage(PlaySoundArray)>>,
                                   Some(OopExecutionState(TRUE, status_opt)))
                   ELSE PushResult("Blocked", <<>>, None)
              ELSE PushResult("Blocked", moved, None)
         [] element_id = ElementType.Boulder -> PushResult("NotBlocked", moved, None)
         [] element_id = ElementType.Object ->
              IF touched /\ (source.fault /= "none" \/ touch.panic)
              THEN [PushResult("Blocked", <<>>, None) EXCEPT
                      !.action_result.fault = IF source.fault /= "none" THEN source.fault
                                              ELSE "panic"]
              ELSE IF touched /\ touch.pos /= None
              THEN PushResult("Blocked",
                              <<SetCodeCurrentInstruction(status_opt[1], touch.pos[1])>>, None)
              ELSE PushResult("Blocked", <<>>, None)
         [] element_id \in {ElementType.Head, ElementType.Segment} ->
              IF is_player
              THEN PushResult("NotBlocked", Call("add_monster_touch_player_actions", <<x, y, sim>>), None)
              ELSE PushResult("Blocked", <<>>, None)
         [] OTHER -> PushResult("Blocked", <<>>, None)

SetStep(status_index, step_x, step_y) ==
    [type |-> "SetStep", status_index |-> status_index, step_x |-> step_x, step_y |-> step_y]

SetLeader(status_index, leader) ==
    [type |-> "SetLeader", status_index |-> status_index, leader |-> leader]

SetFollower(status_index, follower) ==
    [type |-> "SetFollower", status_index |-> status_index, follower |-> follower]

SetTileElementIdAndColour(x, y, element_id, colour) ==
    [type |-> "SetTileElementIdAndColour", x |-> x, y |-> y, element_id |-> element_id,
     colour |-> colour]

\* PlayerBehaviour::step, for the events the model feeds the engine.
PlayerBehaviour_step(event, status, status_index, sim) ==
    LET is_end_of_game == sim.world_header.player_health <= 0
        move_direction_opt ==
            IF is_end_of_game THEN None
            ELSE CASE event = "Left" -> Some("West")
                   [] event = "Right" -> Some("East")
                   [] event = "Up" -> Some("North")
                   [] event = "Down" -> Some("South")
                   [] OTHER -> None
        offset == to_offset[move_direction_opt[1]]
        status_to_move == At(sim.status_elements, 0)
    IN ActionResult(
         (IF event = "PauseGame" /\ ~is_end_of_game
          THEN <<SendBoardMessage([type |-> "PauseGame"])>> ELSE <<>>)
         \o <<[type |-> "SetAsPlayerTile", x |-> status.location_x, y |-> status.location_y]>>
         \o (IF move_direction_opt /= None
             THEN <<SetStep(status_index, offset[1], offset[2]),
                    MoveTile(status_to_move.location_x, status_to_move.location_y,
                             status.location_x + offset[1], status.location_y + offset[2],
                             offset[1], offset[2], TRUE, TRUE)>>
             ELSE <<>>)
         \o (IF sim.world_header.torch_cycles /= None /\ sim.world_header.torch_cycles[1] > 0
             THEN <<[type |-> "SetTorchCycles",
                     value |-> sim.world_header.torch_cycles[1] - 1]>>
             ELSE <<>>)
         \o (IF sim.world_header.energy_cycles > 0
             THEN (IF sim.world_header.energy_cycles = 10
                   THEN <<SendBoardMessage(PlaySoundArray)>> ELSE <<>>)
                  \o <<[type |-> "SetEnergyCycles",
                        value |-> sim.world_header.energy_cycles - 1]>>
             ELSE <<>>)
         \o (IF sim.board_meta_data.time_limit > 0
             THEN <<[type |-> "CheckTimeElapsed"]>> ELSE <<>>),
         None)

ScrollBehaviour_step(status, sim) ==
    LET tile_opt == get_tile(sim, status.location_x, status.location_y)
        bg == tile_opt[1].colour \div 16
        fg == tile_opt[1].colour % 16
        \* fg - 8 on a u8: below 8 the subtraction overflows and panics.
        new_fg == ((fg - 8) % 7) + 9
    IN IF tile_opt = None THEN ActionResult(<<>>, None)
       ELSE IF fg < 8 THEN [ActionResult(<<>>, None) EXCEPT !.fault = "panic"]
       ELSE ActionResult(<<[type |-> "SetColour", x |-> status.location_x,
                            y |-> status.location_y, colour |-> AsU8((bg * 16) + new_fg)]>>,
                         None)

ObjectBehaviour_step(status, status_index, sim) ==
    LET source == Call("get_status_code", <<sim.status_elements, status>>)
        walking == status.step_x /= 0 \/ status.step_y /= 0
        dest_behaviour == behaviour_for_pos(sim, status.location_x + status.step_x,
                                            status.location_y + status.step_y)
        thud == Call("find_label", <<source.code, <<"t", "h", "u", "d">>>>)
        hit == walking /\ blocked(dest_behaviour, FALSE) = "Blocked"
        continuation == Some(OopExecutionState(FALSE, None))
    IN IF source.fault /= "none"
       THEN [ActionResult(<<>>, None) EXCEPT !.fault = source.fault]
       ELSE IF hit /\ ~locked(ElementType.Object, status) /\ thud.panic
       THEN [ActionResult(<<>>, None) EXCEPT !.fault = "panic"]
       ELSE IF hit
       THEN IF ~locked(ElementType.Object, status) /\ thud.pos /= None
            THEN ActionResult(<<SetCodeCurrentInstruction(status_index, thud.pos[1])>>,
                              continuation)
            ELSE ActionResult(<<>>, continuation)
       ELSE IF walking
       THEN ActionResult(<<MoveTile(status.location_x, status.location_y,
                                    status.location_x + status.step_x,
                                    status.location_y + status.step_y,
                                    status.step_x, status.step_y, FALSE, FALSE)>>, continuation)
       ELSE ActionResult(<<>>, continuation)

\* A segment without a leader that becomes a head on its first tick.
SegmentBehaviour_step_at_once(status, status_index) ==
    IF status.leader < 0
    THEN ActionResult(<<SetTileElementIdAndColour(status.location_x, status.location_y,
                                                  Some(ElementType.Head), None)>>, None)
    ELSE ActionResult(<<>>, None)

\* A pusher whose move does not push what is in its way.
PusherBehaviour_step_without_push(status) ==
    ActionResult(<<MoveTile(status.location_x, status.location_y,
                            status.location_x + status.step_x,
                            status.location_y + status.step_y,
                            status.step_x, status.step_y, FALSE, FALSE)>>, None)

PusherBehaviour_step(status) ==
    ActionResult(<<MoveTile(status.location_x, status.location_y,
                            status.location_x + status.step_x,
                            status.location_y + status.step_y,
                            status.step_x, status.step_y, TRUE, FALSE)>>, None)

SegmentBehaviour_step(status, status_index) ==
    IF status.leader = -1 THEN ActionResult(<<SetLeader(status_index, -2)>>, None)
    ELSE IF status.leader = -2
    THEN ActionResult(<<SetTileElementIdAndColour(status.location_x, status.location_y,
                                                  Some(ElementType.Head), None)>>, None)
    ELSE ActionResult(<<>>, None)

\* BulletBehaviour::step.  The result carries, besides the fields of an
\* ActionResult, the field shot: of a bullet that found its way forward
\* blocked, the cell and the element ahead of it, whether the shot was the
\* player's, and whether the step called the damage of the element.
BulletBehaviour_step(status, status_index, sim) ==
    LET x == status.location_x
        y == status.location_y
        ahead == get_tile(sim, x + status.step_x, y + status.step_y)
        cw_dest_tile == get_tile(sim, x + status.step_y, y + status.step_x)
        ccw_dest_tile == get_tile(sim, x - status.step_y, y - status.step_x)
        new_step ==
            IF ahead = None THEN <<status.step_x, status.step_y>>
            ELSE IF ahead[1].element_id = ElementType.Ricochet
            THEN <<-status.step_x, -status.step_y>>
            ELSE IF /\ blocked_for_bullets(behaviour_for_pos(sim, x + status.step_x,
                                                             y + status.step_y)) = "Blocked"
                    /\ cw_dest_tile /= None
            THEN IF cw_dest_tile[1].element_id = ElementType.Ricochet
                 THEN <<-status.step_y, -status.step_x>>
                 ELSE IF ccw_dest_tile /= None /\ ccw_dest_tile[1].element_id = ElementType.Ricochet
                 THEN <<status.step_y, status.step_x>>
                 ELSE <<status.step_x, status.step_y>>
            ELSE <<status.step_x, status.step_y>>
        next_x == x + new_step[1]
        next_y == y + new_step[2]
        dest_behaviour == behaviour_for_pos(sim, next_x, next_y)
        dest_tile == get_tile(sim, next_x, next_y)
        by_player == status.param1 = 0
        damaged == IF destructable(dest_behaviour)
                   THEN Call("damage_shot", <<sim, next_x, next_y, by_player>>)
                   ELSE [actions |-> <<>>, fault |-> "none"]
    IN IF status.step_x = 0 /\ status.step_y = 0
       THEN [actions |-> <<>>, continuation |-> None, fault |-> "none", shot |-> None]
       ELSE IF blocked_for_bullets(dest_behaviour) = "Blocked"
       THEN [actions |-> <<SetTile(x, y, BoardTile(status.under_element_id,
                                                   status.under_colour), None)>>
                         \o damaged.actions
                         \o <<[type |-> "ReprocessSameStatusIndexOnRemoval"]>>,
             continuation |-> None, fault |-> damaged.fault,
             shot |-> Some([status_index |-> status_index, x |-> next_x, y |-> next_y,
                            element_id |-> dest_behaviour, by_player |-> by_player,
                            status_opt |-> get_first_status_for_pos(sim, next_x, next_y),
                            damaged |-> destructable(dest_behaviour)])]
       ELSE [actions |->
                 (IF dest_tile /= None
                  THEN <<[type |-> "SetColour", x |-> x, y |-> y,
                          colour |-> IF dest_tile[1].element_id = ElementType.Water
                                     THEN 127 ELSE 15]>>
                  ELSE <<>>)
                 \o <<MoveTile(x, y, next_x, next_y, new_step[1], new_step[2], FALSE, FALSE)>>
                 \o (IF new_step /= <<status.step_x, status.step_y>>
                     THEN <<SetStep(status_index, new_step[1], new_step[2])>> ELSE <<>>),
             continuation |-> None, fault |-> "none", shot |-> None]

(***************************************************************************)
(* Centipedes.  A HeadStepContext is the record c of the fields do_step    *)
(* writes: new_step_x/y, actions, continuation, status_index_for_head,     *)
(* and the fault of a walk along followers that leaves the list (panic) or *)
(* never ends (hang).                                                      *)
(***************************************************************************)
is_blocked_and_not_player(sim, x, y) ==
    LET player == get_player_location(sim)
    IN IF x = player.x /\ y = player.y THEN FALSE
       ELSE blocked(behaviour_for_pos(sim, x, y), FALSE) = "Blocked"

Abs(v) == IF v < 0 THEN -v ELSE v

Signum(v) == IF v < 0 THEN -1 ELSE IF v > 0 THEN 1 ELSE 0

\* The loop of reverse_centipede from current_status_index to the end of the tail.
reverse_walk(sim, c, current_status_index, before_end_of_tail_x, before_end_of_tail_y, fuel) ==
    IF current_status_index >= Len(sim.status_elements)
    THEN [c EXCEPT !.fault = "index panic"]
    ELSE IF fuel = 0 THEN [c EXCEPT !.fault = "hang"]
    ELSE
    LET current_status == At(sim.status_elements, current_status_index)
        swapped == c.actions \o <<SetLeader(current_status_index, current_status.follower),
                                  SetFollower(current_status_index, current_status.leader)>>
        x == current_status.location_x
        y == current_status.location_y
        step_x == x - before_end_of_tail_x
        step_y == y - before_end_of_tail_y
        next_pos_is_blocked == is_blocked_and_not_player(sim, x + step_x, y + step_y)
        turn_x == IF step_x = 0 THEN -Abs(step_y) ELSE step_y
        turn_y == IF step_y = 0 THEN Abs(step_x) ELSE step_x
        dest_pos_is_blocked == is_blocked_and_not_player(sim, x + turn_x, y + turn_y)
    IN IF current_status.follower >= 0
       THEN Call("reverse_walk", <<sim,
                [c EXCEPT !.actions =
                    Append(swapped, SetStep(current_status_index, -current_status.step_x,
                                            -current_status.step_y))],
                current_status.follower, x, y, fuel - 1>>)
       ELSE [c EXCEPT
               !.actions = Append(swapped,
                   SetTileElementIdAndColour(x, y, Some(ElementType.Head), None)),
               !.status_index_for_head = current_status_index,
               !.new_step_x = IF ~next_pos_is_blocked THEN step_x
                              ELSE IF dest_pos_is_blocked THEN -turn_x ELSE turn_x,
               !.new_step_y = IF ~next_pos_is_blocked THEN step_y
                              ELSE IF dest_pos_is_blocked THEN -turn_y ELSE turn_y]

reverse_centipede(sim, c, status, status_index) ==
    IF status.follower < 0
    THEN IF ~is_blocked_and_not_player(sim, status.location_x - c.new_step_x,
                                       status.location_y - c.new_step_y)
         THEN [c EXCEPT !.new_step_x = -c.new_step_x, !.new_step_y = -c.new_step_y]
         ELSE c
    ELSE Call("reverse_walk", <<sim,
             [c EXCEPT !.actions =
                 Append(@, SetTileElementIdAndColour(status.location_x, status.location_y,
                                                     Some(ElementType.Segment), None))],
             status_index, status.location_x + c.new_step_x,
             status.location_y + c.new_step_y, Len(sim.status_elements)>>)

\* get_random_step from the two numbers it draws.
get_random_step(rnd) ==
    LET step_x == rnd.step - 1
    IN <<step_x, IF step_x = 0 THEN (IF rnd.pick = 0 THEN -1 ELSE 1) ELSE 0>>

do_intelligence_and_deviance(sim, c, status, rnd) ==
    LET player == get_player_location(sim)
        random_step == get_random_step(rnd)
    IN IF status.location_x = player.x /\ status.param1 > rnd.int_x
       THEN [c EXCEPT !.new_step_x = 0, !.new_step_y = Signum(player.y - status.location_y)]
       ELSE IF status.location_y = player.y /\ status.param1 > rnd.int_y
       THEN [c EXCEPT !.new_step_x = Signum(player.x - status.location_x), !.new_step_y = 0]
       ELSE IF status.param2 > rnd.int_deviance * 4
       THEN [c EXCEPT !.new_step_x = random_step[1], !.new_step_y = random_step[2]]
       ELSE c

\* The first loop of the joining branch: the end of the tail and the
\* position of the segment before it.
end_of_tail(sim, end_of_tail_index, before_end_of_tail_x, before_end_of_tail_y, fuel) ==
    IF end_of_tail_index >= Len(sim.status_elements) THEN [fault |-> "index panic"]
    ELSE IF fuel = 0 THEN [fault |-> "hang"]
    ELSE LET current_status == At(sim.status_elements, end_of_tail_index)
         IN IF current_status.follower >= 0
            THEN Call("end_of_tail", <<sim, current_status.follower, current_status.location_x,
                             current_status.location_y, fuel - 1>>)
            ELSE [fault |-> "none", index |-> end_of_tail_index,
                  x |-> before_end_of_tail_x, y |-> before_end_of_tail_y]

\* The second loop: join the lone segments found behind the end of the tail.
join_segments(sim, actions, end_of_tail_index, before_end_of_tail_x, before_end_of_tail_y, joined_status_indices) ==
    LET end_of_tail_status == At(sim.status_elements, end_of_tail_index)
        search_offset_x == end_of_tail_status.location_x - before_end_of_tail_x
        search_offset_y == end_of_tail_status.location_y - before_end_of_tail_y
        found(offset_x, offset_y) ==
            LET search_x == end_of_tail_status.location_x + offset_x
                search_y == end_of_tail_status.location_y + offset_y
                search_opt == get_first_status_for_pos(sim, search_x, search_y)
            IN IF /\ search_opt /= None
                  /\ get_tile(sim, search_x, search_y) /= None
                  /\ get_tile(sim, search_x, search_y)[1].element_id = ElementType.Segment
                  /\ At(sim.status_elements, search_opt[1]).leader < 0
                  /\ search_opt[1] \notin joined_status_indices
               THEN search_opt ELSE None
        first == found(search_offset_x, search_offset_y)
        second == found(search_offset_y, search_offset_x)
        third == found(-search_offset_y, -search_offset_x)
        search_status_index == IF first /= None THEN first[1]
                               ELSE IF second /= None THEN second[1] ELSE third[1]
    IN IF first = None /\ second = None /\ third = None THEN actions
       ELSE Call("join_segments", <<sim,
                actions \o <<SetLeader(search_status_index, end_of_tail_index),
                             SetFollower(end_of_tail_index, search_status_index)>>,
                search_status_index, end_of_tail_status.location_x,
                end_of_tail_status.location_y,
                joined_status_indices \cup {search_status_index}>>)

do_step(sim, status, status_index, rnd) ==
    LET c0 == [new_step_x |-> status.step_x, new_step_y |-> status.step_y, actions |-> <<>>,
               continuation |-> None, status_index_for_head |-> status_index,
               fault |-> "none"]
        x == status.location_x
        y == status.location_y
        free_dirs == SelectSeq(<<"North", "South", "East", "West">>,
                        LAMBDA d : blocked(behaviour_for_pos(sim, x + to_offset[d][1],
                                                             y + to_offset[d][2]), FALSE)
                                     = "NotBlocked")
        new_step == to_offset[free_dirs[(rnd.free % Len(free_dirs)) + 1]]
        decided == Call("do_intelligence_and_deviance", <<sim, c0, status, rnd>>)
        cw_step == <<-decided.new_step_y, decided.new_step_x>>
        ccw_step == <<decided.new_step_y, -decided.new_step_x>>
        cw_is_blocked == is_blocked_and_not_player(sim, x + cw_step[1], y + cw_step[2])
        ccw_is_blocked == is_blocked_and_not_player(sim, x + ccw_step[1], y + ccw_step[2])
        turn_to(step) == [decided EXCEPT !.new_step_x = step[1], !.new_step_y = step[2]]
        c1 == IF c0.new_step_x = 0 /\ c0.new_step_y = 0
              THEN IF free_dirs = <<>> THEN c0
                   ELSE [c0 EXCEPT !.new_step_x = new_step[1], !.new_step_y = new_step[2]]
              ELSE IF ~is_blocked_and_not_player(sim, x + decided.new_step_x,
                                                 y + decided.new_step_y)
              THEN decided
              ELSE CASE cw_is_blocked /\ ccw_is_blocked ->
                          Call("reverse_centipede", <<sim, decided, status, status_index>>)
                     [] cw_is_blocked /\ ~ccw_is_blocked -> turn_to(ccw_step)
                     [] ~cw_is_blocked /\ ccw_is_blocked -> turn_to(cw_step)
                     [] OTHER -> IF rnd.turn THEN turn_to(cw_step) ELSE turn_to(ccw_step)
    IN Call("move_head", <<sim, status, status_index, c1>>)

\* The rest of do_step, once the new step c1 of the head is decided.
move_head(sim, status, status_index, c1) ==
    LET x == status.location_x
        y == status.location_y
        dest_x == x + c1.new_step_x
        dest_y == y + c1.new_step_y
        moving == c1.new_step_x /= 0 \/ c1.new_step_y /= 0
        head_died == moving /\ has_player_at_location(sim, dest_x, dest_y)
        follower_status == At(sim.status_elements, status.follower)
        tail == Call("end_of_tail", <<sim, status_index, dest_x, dest_y, Len(sim.status_elements)>>)
        set_step == <<SetStep(c1.status_index_for_head, c1.new_step_x, c1.new_step_y)>>
    IN IF c1.fault /= "none" THEN c1
       ELSE IF head_died
       THEN IF status.follower >= Len(sim.status_elements)
            THEN [c1 EXCEPT !.fault = "index panic"]
            ELSE [c1 EXCEPT !.actions =
                    @ \o Call("add_monster_touch_player_actions", <<x, y, sim>>)
                      \o (IF status.follower >= 0
                          THEN <<SetTileElementIdAndColour(follower_status.location_x,
                                     follower_status.location_y, Some(ElementType.Head), None),
                                 [type |-> "ReprocessSameStatusIndexOnRemoval"]>>
                          ELSE <<>>)]
       ELSE IF moving
       THEN IF tail.fault /= "none" THEN [c1 EXCEPT !.fault = tail.fault]
            ELSE [c1 EXCEPT
                    !.actions = Call("join_segments", <<sim, @, tail.index, tail.x, tail.y, {}>>) \o set_step,
                    !.continuation = Some([kind |-> "CentipedeMovement"])]
       ELSE [c1 EXCEPT !.actions = @ \o set_step]

\* The followers' part of CentipedeMovementContinuation::next_step.
follow_moves(sim, actions, current_tail_index, prev_x, prev_y, fuel) ==
    IF current_tail_index < 0
    THEN [actions |-> actions, continuation |-> None, fault |-> "none"]
    ELSE IF current_tail_index >= Len(sim.status_elements)
    THEN [actions |-> <<>>, continuation |-> None, fault |-> "index panic"]
    ELSE IF fuel = 0 THEN [actions |-> <<>>, continuation |-> None, fault |-> "hang"]
    ELSE LET tail_status == At(sim.status_elements, current_tail_index)
             offset_x == prev_x - tail_status.location_x
             offset_y == prev_y - tail_status.location_y
         IN Call("follow_moves", <<sim,
                actions \o <<SetStep(current_tail_index, offset_x, offset_y),
                             MoveTile(tail_status.location_x, tail_status.location_y,
                                      prev_x, prev_y, offset_x, offset_y, TRUE, FALSE)>>,
                tail_status.follower, tail_status.location_x, tail_status.location_y,
                fuel - 1>>)

\* A continuation that moves the head and leaves its followers.
CentipedeMovementContinuation_next_step_head_only(status, sim) ==
    [actions |-> <<MoveTile(status.location_x, status.location_y,
                            status.location_x + status.step_x,
                            status.location_y + status.step_y,
                            status.step_x, status.step_y, TRUE, FALSE)>>,
     continuation |-> None, fault |-> "none"]

CentipedeMovementContinuation_next_step(status, sim) ==
    Call("follow_moves", <<sim,
        <<MoveTile(status.location_x, status.location_y,
                   status.location_x + status.step_x, status.location_y + status.step_y,
                   status.step_x, status.step_y, TRUE, FALSE)>>,
        status.follower, status.location_x, status.location_y, Len(sim.status_elements)>>)

\* Behaviour::step of the behaviour of element_id.
step(element_id, event, status, status_index, sim, rnd) ==
    CASE element_id = ElementType.Player -> Call("PlayerBehaviour_step", <<event, status, status_index, sim>>)
      [] element_id = ElementType.Scroll -> Call("ScrollBehaviour_step", <<status, sim>>)
      [] element_id = ElementType.Object -> Call("ObjectBehaviour_step", <<status, status_index, sim>>)
      [] element_id = ElementType.Segment -> Call("SegmentBehaviour_step", <<status, status_index>>)
      [] element_id = ElementType.Bullet -> Call("BulletBehaviour_step", <<status, status_index, sim>>)
      [] element_id = ElementType.Pusher -> PusherBehaviour_step(status)
      [] element_id = ElementType.Head ->
           LET c == Call("do_step", <<sim, status, status_index, rnd>>)
           IN [actions |-> c.actions, continuation |-> c.continuation, fault |-> c.fault]
      [] OTHER -> ActionResult(<<>>, None)

(***************************************************************************)
(* The action reducer.  The operators thread a record sim: the fields of   *)
(* the BoardSimulator (tiles, status_elements, world_header,               *)
(* board_meta_data), the AccumulatedActionData and the                     *)
(* ApplyActionResultReport being written, fault ("none", or "panic"/"hang" *)
(* once the program has stopped that way), and the history field ghost:    *)
(* running holds, for each continuation in progress, the status index it   *)
(* runs for and whether a status at or below it has been removed since it  *)
(* started; late_next_step records a next_step invoked after such a        *)
(* removal; preempted records a continuation ended by a removal before it  *)
(* had finished; removed records that a status has been removed since the  *)
(* simulation step began; ops is the largest number of operations one      *)
(* continuation has executed; stepped records whether the last             *)
(* process_status ran the step of the behaviour; removal keeps the code    *)
(* sources before and after the last removal of one status; error keeps,   *)
(* of the last next_step of a script that ended in a runtime error (an Err *)
(* of the parser, or a direction word after / or ? that is no direction),  *)
(* the tag of the status, the cursor it began at and the cursor it left,   *)
(* and the OpenScroll messages it pushed; op keeps the same of the last    *)
(* next_step of a script that executed an operation, with the code, the    *)
(* check the next_step began with (async) and the report it was given.     *)
(* item keeps the last ModifyPlayerItem applied with the value of the      *)
(* item before and after it, and take the last next_step that checked a    *)
(* #take with the item at that time.  shot keeps, of the last              *)
(* process_status, what the step of a bullet found blocking it, and        *)
(* timeout, of the last check of the time elapsed that found the time      *)
(* limit exceeded, the player's health and location before it.             *)
(***************************************************************************)
ApplyActionResultReport ==
    [move_was_blocked |-> "NotBlocked", take_player_item_failed |-> FALSE,
     removed_status_indices |-> <<>>, reprocess_same_status_index_on_removal |-> FALSE]

\* StatusIndicesWithMinimum::minimum, as an Option.
minimum(removed_status_indices) ==
    IF removed_status_indices = <<>> THEN None
    ELSE Some(CHOOSE m \in {removed_status_indices[i] : i \in DOMAIN removed_status_indices} :
                \A i \in DOMAIN removed_status_indices : m <= removed_status_indices[i])

panicked(sim) == [sim EXCEPT !.fault = "panic"]

set_status(sim, status_index, field, value) ==
    IF status_index >= Len(sim.status_elements) THEN [sim EXCEPT !.fault = "index panic"]
    ELSE [sim EXCEPT !.status_elements[status_index + 1] =
                         [f \in DOMAIN @ |-> IF f = field THEN value ELSE @[f]]]

\* What the properties are told of a call of remove_status_for_pos on the
\* statuses before: the indices removed and, of a call that removed one
\* status, the code sources before and after it.
note_removed(ghost, before, removed) ==
    LET CodeSources(status_elements) ==
            [i \in DOMAIN status_elements |-> status_elements[i].code_source]
    IN
    [ghost EXCEPT
      !.removed = @ \/ removed.removed_status_indices /= <<>>,
      !.removal = IF Len(removed.removed_status_indices) = 1
                  THEN Some([index |-> removed.removed_status_indices[1],
                             before |-> CodeSources(before),
                             after |-> CodeSources(removed.status_elements)])
                  ELSE @,
      !.running =
        [i \in DOMAIN @ |->
            [@[i] EXCEPT !.removed_at_or_below =
                @ \/ \E j \in DOMAIN removed.removed_status_indices :
                        removed.removed_status_indices[j]
                          <= ghost.running[i].processing_status_index]]]

restart_player_on_board(sim) ==
    LET player == get_player_location(sim)
        moved == move_tile(sim, player.x, player.y, sim.board_meta_data.player_enter_x,
                           sim.board_meta_data.player_enter_y)
    IN [moved EXCEPT !.accumulated_data.board_messages = Append(@, [type |-> "PauseGame"]),
                     !.world_header.time_passed = 0]

\* The Jump arm of the loop of Action::OthersApplyLabelOperation.
others_apply_label(sim, action, status_index) ==
    IF sim.fault /= "none" \/ status_index >= Len(sim.status_elements) THEN sim
    ELSE LET other_status == At(sim.status_elements, status_index)
             element_id == behaviour_for_pos(sim, other_status.location_x,
                                             other_status.location_y)
             source == Call("get_status_code", <<sim.status_elements, other_status>>)
             name == get_name(source.code)
             is_matching_status ==
                 /\ ~locked(element_id, other_status)
                 /\ \/ action.receiver_name_opt = None
                    \/ name /= None /\ to_lower(name[1]) = action.receiver_name_opt[1]
             found == Call("find_label", <<source.code, action.label>>)
             skipped == action.current_status_index /= None
                        /\ status_index = action.current_status_index[1]
             applied ==
                 IF skipped THEN sim
                 ELSE IF source.fault /= "none" THEN [sim EXCEPT !.fault = source.fault]
                 ELSE IF is_matching_status /\ found.panic THEN panicked(sim)
                 ELSE IF is_matching_status /\ found.pos /= None
                 THEN set_status(sim, status_index, "code_current_instruction", found.pos[1])
                 ELSE sim
         IN Call("others_apply_label", <<applied, action, status_index + 1>>)


apply_action(sim, current_tile_x, current_tile_y, action, global_cycle, processing_status_index) ==
    LET can_squash_here == can_squash(behaviour_for_pos(sim, current_tile_x, current_tile_y))
        tile_opt == get_tile(sim, action.x, action.y)
        removed == Call("remove_status_for_pos", <<sim.status_elements, action.x, action.y>>)
        pushed == Call("push_tile", <<sim, action.x, action.y, action.offset_x, action.offset_y, FALSE,
                            can_squash_here, global_cycle, processing_status_index>>)
        arrived == Call("push_tile", <<sim, action.to_x, action.to_y, action.offset_x, action.offset_y,
                             action.is_player, can_squash_here, global_cycle,
                             processing_status_index>>)
        item == CASE action.item_type = "Health" -> "player_health"
                  [] action.item_type = "Gems" -> "player_gems"
                  [] action.item_type = "Score" -> "player_score"
                  [] action.item_type = "Ammo" -> "player_ammo"
                  [] action.item_type = "Torches" -> "player_torches"
                  [] action.item_type = "Time" -> "time_passed"
        current_item_value == IF action.item_type = "Torches"
                              THEN sim.world_header.player_torches
                              ELSE Some(sim.world_header[item])
        with_item_value(v) ==
            [sim EXCEPT !.world_header[item] = IF action.item_type = "Torches" THEN Some(v) ELSE v,
                        !.ghost.item = Some([item_type |-> action.item_type,
                                             offset |-> action.offset,
                                             before |-> current_item_value[1], after |-> v])]
        owner == get_status_index_code(sim.status_elements, action.status_index,
                                       Len(sim.status_elements))
        energised == <<0, 12, 0, 14, 0, 1, 0, 3, 0, 5, 0, 7, 0, 10>>
        player_colour == IF sim.world_header.energy_cycles > 0
                         THEN (energised[(global_cycle % 14) + 1] * 16) + 15
                         ELSE 31
    IN IF sim.fault /= "none" THEN sim
       ELSE CASE action.type = "SetTile" ->
              [set_tile(sim, action.x, action.y, action.tile) EXCEPT
                 !.status_elements = removed.status_elements \o action.status_element,
                 !.report.removed_status_indices = @ \o removed.removed_status_indices,
                 !.ghost = note_removed(@, sim.status_elements, removed)]
         [] action.type = "SetTileElementIdAndColour" ->
              IF tile_opt = None THEN sim
              ELSE set_tile(sim, action.x, action.y,
                     BoardTile(IF action.element_id /= None THEN action.element_id[1]
                               ELSE tile_opt[1].element_id,
                               IF action.colour /= None THEN action.colour[1]
                               ELSE tile_opt[1].colour))
         [] action.type = "SetColour" ->
              IF tile_opt = None THEN sim
              ELSE set_tile(sim, action.x, action.y,
                            BoardTile(tile_opt[1].element_id, action.colour))
         [] action.type = "PushTile" ->
              IF pushed.blocked = "Blocked"
              THEN [pushed.sim EXCEPT !.report.move_was_blocked = "Blocked"]
              ELSE pushed.sim
         [] action.type = "MoveTile" ->
              IF ~action.check_push
              THEN Call("move_tile", <<sim, action.from_x, action.from_y, action.to_x, action.to_y>>)
              ELSE IF arrived.sim.fault /= "none" THEN arrived.sim
              ELSE IF arrived.blocked = "NotBlocked"
              THEN Call("move_tile", <<arrived.sim, action.from_x, action.from_y, action.to_x, action.to_y>>)
              ELSE [arrived.sim EXCEPT !.report.move_was_blocked = "Blocked"]
         [] action.type = "SendBoardMessage" ->
              [sim EXCEPT !.accumulated_data.board_messages = Append(@, action.board_message)]
         [] action.type = "SetCodeCurrentInstruction" ->
              set_status(sim, action.status_index, "code_current_instruction",
                         action.code_current_instruction)
         [] action.type = "SetCode" ->
              IF owner = -1 THEN [sim EXCEPT !.fault = "index panic"]
              ELSE IF owner = -2 THEN [sim EXCEPT !.fault = "hang"]
              ELSE set_status(sim, owner, "code_source", Owned(action.code))
         [] action.type = "BindCodeToIndex" ->
              set_status(sim, action.status_index, "code_source", Bound(action.bind_to_index))
         [] action.type = "ModifyPlayerItem" ->
              IF current_item_value = None THEN sim
              ELSE IF action.offset < 0 /\ current_item_value[1] + action.offset < 0
              THEN IF action.require_exact_amount
                   THEN [with_item_value(current_item_value[1])
                           EXCEPT !.report.take_player_item_failed = TRUE]
                   ELSE with_item_value(0)
              ELSE with_item_value(current_item_value[1] + action.offset)
         [] action.type = "CheckRestartOnZapped" ->
              IF sim.board_meta_data.restart_on_zap THEN Call("restart_player_on_board", <<sim>>) ELSE sim
         [] action.type = "SetLeader" ->
              set_status(sim, action.status_index, "leader", action.leader)
         [] action.type = "SetFollower" ->
              set_status(sim, action.status_index, "follower", action.follower)
         [] action.type = "SetFlag" ->
              IF last_matching_flag(sim.world_header.flag_names, action.name) = None
                 /\ first_empty_flag(sim.world_header.flag_names) /= None
              THEN [sim EXCEPT !.world_header.flag_names[
                                   first_empty_flag(sim.world_header.flag_names)[1] + 1] =
                                       to_upper(action.name)]
              ELSE sim
         [] action.type = "ClearFlag" ->
              IF last_matching_flag(sim.world_header.flag_names, action.name) /= None
              THEN [sim EXCEPT !.world_header.flag_names[
                                   last_matching_flag(sim.world_header.flag_names,
                                                      action.name)[1] + 1] = <<>>]
              ELSE sim
         [] action.type = "SetStep" ->
              IF action.status_index >= Len(sim.status_elements)
              THEN [sim EXCEPT !.fault = "index panic"]
              ELSE [sim EXCEPT !.status_elements[action.status_index + 1].step_x = action.step_x,
                               !.status_elements[action.status_index + 1].step_y = action.step_y]
         [] action.type = "OthersApplyLabelOperation" -> Call("others_apply_label", <<sim, action, 0>>)
         [] action.type = "SetStatusParam2" ->
              set_status(sim, action.status_index, "param2", action.value)
         [] action.type = "SetTorchCycles" ->
              IF sim.world_header.torch_cycles /= None
              THEN [sim EXCEPT !.world_header.torch_cycles = Some(action.value)] ELSE sim
         [] action.type = "SetEnergyCycles" ->
              [sim EXCEPT !.world_header.energy_cycles = action.value]
         [] action.type = "ReprocessSameStatusIndexOnRemoval" ->
              [sim EXCEPT !.report.reprocess_same_status_index_on_removal = TRUE]
         [] action.type = "CheckTimeElapsed" ->
              [sim EXCEPT !.accumulated_data.should_check_time_elapsed = TRUE]
         [] action.type = "SetAsPlayerTile" ->
              IF tile_opt = None THEN sim
              ELSE set_tile(sim, action.x, action.y,
                            BoardTile(ElementType.Player, player_colour))

apply_actions(sim, current_tile_x, current_tile_y, actions, global_cycle, processing_status_index) ==
    LET rest(applied) ==
            IF Tail(actions) = <<>> THEN applied
            ELSE Call("apply_actions", <<applied, current_tile_x, current_tile_y, Tail(actions),
                                         global_cycle, processing_status_index>>)
    IN IF actions = <<>> THEN sim
       ELSE IF Tail(actions) = <<>>
       THEN apply_action(sim, current_tile_x, current_tile_y, Head(actions),
                         global_cycle, processing_status_index)
       ELSE rest(apply_action(sim, current_tile_x, current_tile_y, Head(actions),
                              global_cycle, processing_status_index))

\* A check that ends a continuation only when the status being processed was
\* the lowest removed; the properties of pre-emption must tell it from
\* removed_at_or_below.
removed_at(report, processing_status_index) ==
    /\ minimum(report.removed_status_indices) /= None
    /\ minimum(report.removed_status_indices)[1] = processing_status_index

\* The check that ends a continuation: a status at or below the processing
\* index was removed by the last actions applied.
removed_at_or_below(report, processing_status_index) ==
    /\ minimum(report.removed_status_indices) /= None
    /\ minimum(report.removed_status_indices)[1] <= processing_status_index

next_step(continuation, report, status_index, status, sim) ==
    LET moves == Call("CentipedeMovementContinuation_next_step", <<status, sim>>)
    IN IF continuation.kind = "Oop"
       THEN Call("oop_next_step", <<continuation, report, status_index, sim>>)
       ELSE [continuation |-> continuation, actions |-> moves.actions, finished |-> TRUE,
             fault |-> moves.fault]

finalise(continuation, status_opt, sim) ==
    IF continuation.kind = "Oop" THEN Call("oop_finalise", <<continuation, status_opt, sim>>)
    ELSE [actions |-> <<>>, continuation |-> continuation, fault |-> "none"]

\* One iteration of the loop of apply_action_result, on the record loop of
\* what the loop holds: the simulator, the continuation, the finished of the
\* last result, the current tile, and done once the loop has been left.
continue_once(loop, global_cycle, processing_status_index) ==
    LET sim == loop.sim
        status_element == At(sim.status_elements, processing_status_index)
        continue_result == Call("next_step", <<loop.continuation, sim.report, processing_status_index,
                                     status_element, sim>>)
        top == Len(sim.ghost.running)
        invoked == [sim EXCEPT
                      !.report = ApplyActionResultReport,
                      !.ghost.late_next_step = @ \/ sim.ghost.running[top].removed_at_or_below,
                      !.ghost.ops =
                          IF loop.continuation.kind = "Oop"
                             /\ continue_result.continuation.executed_operation_count > @
                          THEN continue_result.continuation.executed_operation_count ELSE @,
                      !.ghost.take =
                          IF loop.continuation.kind = "Oop" /\ continue_result.info /= None
                             /\ continue_result.info[1].async = "Take"
                          THEN Some([op |-> continue_result.info[1], item |-> loop.sim.ghost.item])
                          ELSE @,
                      !.ghost.op =
                          IF loop.continuation.kind = "Oop" /\ continue_result.info /= None
                          THEN continue_result.info ELSE @,
                      !.ghost.error =
                          IF loop.continuation.kind = "Oop" /\ continue_result.info /= None
                             /\ (continue_result.info[1].err
                                 \/ continue_result.info[1].bad_direction)
                          THEN continue_result.info ELSE @]
        applied == Call("apply_actions", <<invoked, status_element.location_x,
                                 status_element.location_y, continue_result.actions,
                                 global_cycle, Some(processing_status_index)>>)
    IN IF loop.done THEN loop
       ELSE IF sim.fault /= "none" THEN [loop EXCEPT !.done = TRUE]
       ELSE IF loop.finished \/ removed_at_or_below(sim.report, processing_status_index)
       THEN [loop EXCEPT !.done = TRUE, !.sim.ghost.preempted = @ \/ ~loop.finished]
       ELSE IF processing_status_index >= Len(sim.status_elements)
       THEN [loop EXCEPT !.done = TRUE, !.sim.fault = "index panic"]
       ELSE IF continue_result.fault /= "none"
       THEN [loop EXCEPT !.done = TRUE, !.sim.fault = continue_result.fault]
       ELSE [sim |-> applied, continuation |-> continue_result.continuation,
             finished |-> continue_result.finished,
             current_tile_x |-> status_element.location_x,
             current_tile_y |-> status_element.location_y, done |-> FALSE]

\* Up to count iterations of the loop, halving count so that the evaluation
\* stays shallow; each half is bound before the next is begun.
continue_loop(loop, count, global_cycle, processing_status_index) ==
    IF loop.done \/ count = 0 THEN loop
    ELSE IF count = 1
    THEN CHOOSE left \in {Call("continue_once", <<loop, global_cycle, processing_status_index>>)} : TRUE
    ELSE CHOOSE left \in
           {Call("continue_loop", <<half, count - (count \div 2), global_cycle,
                          processing_status_index>>) :
            half \in {Call("continue_loop", <<loop, count \div 2, global_cycle,
                                    processing_status_index>>)}} : TRUE

\* The loop of apply_action_result and the finalise that follows it.  An
\* OopExecutionState finishes within MAX_OPERATIONS + 1 calls of next_step and
\* a CentipedeMovementContinuation in one, so the loop is left within
\* MAX_OPERATIONS + 2 iterations.
continue_action_result(sim, continuation, current_tile_x, current_tile_y, global_cycle, processing_status_index) ==
    LET left == Call("continue_loop", <<[sim |-> sim, continuation |-> continuation,
                               finished |-> FALSE, current_tile_x |-> current_tile_x,
                               current_tile_y |-> current_tile_y, done |-> FALSE],
                              MAX_OPERATIONS + 2, global_cycle, processing_status_index>>)
        status_element_opt ==
            IF processing_status_index < Len(left.sim.status_elements)
            THEN Some(At(left.sim.status_elements, processing_status_index)) ELSE None
        finalised == Call("finalise", <<left.continuation, status_element_opt, left.sim>>)
    IN IF left.sim.fault /= "none" THEN left.sim
       ELSE IF ~left.done THEN [left.sim EXCEPT !.fault = "hang"]
       ELSE IF finalised.fault /= "none" THEN [left.sim EXCEPT !.fault = finalised.fault]
       ELSE Call("apply_actions", <<left.sim, left.current_tile_x, left.current_tile_y,
                          finalised.actions, global_cycle, Some(processing_status_index)>>)

apply_action_result(sim, current_tile_x, current_tile_y, action_result, global_cycle, processing_status_index) ==
    LET continues == processing_status_index /= None /\ action_result.continuation /= None
        started == [sim EXCEPT
                      !.report = ApplyActionResultReport,
                      !.ghost.running =
                          IF continues
                          THEN Append(@, [processing_status_index |-> processing_status_index[1],
                                          removed_at_or_below |-> FALSE])
                          ELSE @]
        ended(first) ==
            IF continues
            THEN [Call("continue_action_result", <<first, action_result.continuation[1],
                                                   current_tile_x, current_tile_y, global_cycle,
                                                   processing_status_index[1]>>)
                    EXCEPT !.ghost.running = SubSeq(@, 1, Len(@) - 1)]
            ELSE first
    IN IF action_result.fault /= "none" THEN [sim EXCEPT !.fault = action_result.fault]
       ELSE IF ~continues
       THEN apply_actions(started, current_tile_x, current_tile_y, action_result.actions,
                          global_cycle, processing_status_index)
       ELSE ended(apply_actions(started, current_tile_x, current_tile_y, action_result.actions,
                                global_cycle, processing_status_index))

\* The BlockedStatus returned, with the simulator the push leaves.  The report
\* of the nested apply_action_result is dropped: the caller's report stays.
push_tile(sim, x, y, push_off_x, push_off_y, is_player, can_squash_flag, global_cycle, processing_status_index) ==
    LET result == Call("push", <<sim, x, y, push_off_x, push_off_y, is_player>>)
        after == [apply_action_result(sim, x, y, result.action_result, global_cycle,
                                      processing_status_index)
                    EXCEPT !.report = sim.report]
        behaviour_after_push == behaviour_for_pos(after, x, y)
    IN IF push_off_x = 0 /\ push_off_y = 0 THEN [sim |-> sim, blocked |-> "NotBlocked"]
       ELSE IF result.action_result.fault /= "none"
       THEN [sim |-> [sim EXCEPT !.fault = result.action_result.fault], blocked |-> "Blocked"]
       ELSE [sim |-> after,
             blocked |-> IF result.blocked = "Blocked" THEN "Blocked"
                         ELSE IF can_squash_flag /\ can_be_squashed(behaviour_after_push)
                         THEN "NotBlocked"
                         ELSE blocked(behaviour_after_push, is_player)]

(***************************************************************************)
(* BoardSimulatorStepState: the scheduler of one simulation step.          *)
(***************************************************************************)
AccumulatedActionData == [should_check_time_elapsed |-> FALSE, board_messages |-> <<>>]

BoardSimulatorStepState(event, global_cycle) ==
    [event |-> event, global_cycle |-> global_cycle, processing_status_index_opt |-> None,
     accumulated_data |-> AccumulatedActionData]

\* Rust's % on isize: the remainder takes the sign of the dividend.
Rem(a, b) == IF a >= 0 THEN a % b ELSE -((-a) % b)

\* The cycle test of process_status.
\* A cycle calculation without the index; the properties of the cycle must
\* tell it from cycle_is_due.
cycle_is_due_for_all(global_cycle, status_index, cycle) ==
    cycle > 0 /\ Rem(global_cycle, cycle) = 0

cycle_is_due(global_cycle, status_index, cycle) ==
    cycle > 0 /\ Rem(global_cycle - Rem(status_index, cycle), cycle) = 0

process_status(step_state, status_index, sim, rnd) ==
    LET status_element == At(sim.status_elements, status_index)
        tile_x == status_element.location_x
        tile_y == status_element.location_y
        due == cycle_is_due(step_state.global_cycle, status_index, status_element.cycle)
        step_result ==
            IF due
            THEN Call("step", <<behaviour_for_pos(sim, tile_x, tile_y), step_state.event,
                                status_element, status_index, sim, rnd>>)
            ELSE ActionResult(<<>>, None)
        shot == IF "shot" \in DOMAIN step_result THEN step_result.shot ELSE None
    IN Call("apply_action_result", <<[sim EXCEPT !.ghost.stepped = due, !.ghost.shot = shot],
                                     tile_x, tile_y,
                                     step_result, step_state.global_cycle,
                                     Some(status_index)>>)

\* A partial_step that passes over a status, and one that advances whether
\* or not process_same_status is set; the properties of the order of the
\* statuses must tell them from next_status_index.
next_status_index_passing_over(processing_status_index_opt, process_same_status) ==
    IF processing_status_index_opt /= None
    THEN IF ~process_same_status THEN processing_status_index_opt[1] + 2
         ELSE processing_status_index_opt[1]
    ELSE 0

next_status_index_advancing(processing_status_index_opt, process_same_status) ==
    IF processing_status_index_opt /= None THEN processing_status_index_opt[1] + 1 ELSE 0

\* The index partial_step processes.
next_status_index(processing_status_index_opt, process_same_status) ==
    IF processing_status_index_opt /= None
    THEN IF ~process_same_status THEN processing_status_index_opt[1] + 1
         ELSE processing_status_index_opt[1]
    ELSE 0

\* The removals partial_step subtracts from the processing index.
removed_below_or_at(action_report, processing_status_index) ==
    Cardinality({i \in DOMAIN action_report.removed_status_indices :
        \/ action_report.removed_status_indices[i] < processing_status_index
        \/ /\ action_report.reprocess_same_status_index_on_removal
           /\ action_report.removed_status_indices[i] = processing_status_index})

\* partial_step on the step state and the simulator (with the step state's
\* accumulated data in sim): both as left, and the bool returned.
partial_step(step_state, process_same_status, sim, rnd) ==
    LET status_index == next_status_index(step_state.processing_status_index_opt,
                                          process_same_status)
        processed == Call("process_status", <<step_state, status_index, sim, rnd>>)
        count == removed_below_or_at(processed.report, status_index)
    IN IF status_index < Len(sim.status_elements)
       THEN [is_done |-> FALSE,
             sim |-> IF processed.fault = "none" /\ count > status_index
                     THEN [processed EXCEPT !.fault = "overflow panic"] ELSE processed,
             step_state |-> [step_state EXCEPT
                               !.processing_status_index_opt = Some(status_index - count),
                               !.accumulated_data = processed.accumulated_data]]
       ELSE [is_done |-> TRUE, sim |-> sim,
             step_state |-> [step_state EXCEPT
                               !.processing_status_index_opt = Some(status_index)]]

(***************************************************************************)
(* ScrollState and the engine's handling of board messages.                *)
(***************************************************************************)
ScrollState(title, content_lines) ==
    [title |-> title, content_lines |-> content_lines, current_line |-> 0]

\* The index of the first ';' of content_line[1..], or -1.
RECURSIVE find_semicolon(_, _)
find_semicolon(content_line, i) ==
    IF i + 1 >= Len(content_line) THEN -1
    ELSE IF At(content_line, i + 1) = ";" THEN i
    ELSE find_semicolon(content_line, i + 1)

\* hovering_link: [link |-> Option, panic |-> indexing content_lines failed].
hovering_link(scroll) ==
    LET content_line == At(scroll.content_lines, scroll.current_line)
        i == find_semicolon(content_line, 0)
    IN IF scroll.current_line < 0 THEN [link |-> None, panic |-> FALSE]
       ELSE IF scroll.current_line >= Len(scroll.content_lines)
       THEN [link |-> None, panic |-> TRUE]
       ELSE IF content_line /= <<>> /\ content_line[1] = "!"
       THEN [link |-> Some(IF i >= 0 THEN SubSeq(content_line, 2, i + 1)
                           ELSE SubSeq(content_line, 2, Len(content_line))),
             panic |-> FALSE]
       ELSE [link |-> None, panic |-> FALSE]

\* ScrollState::step: the scroll as left, the messages returned.
scroll_step(scroll, event) ==
    LET hovering == hovering_link(scroll)
        last_line == Len(scroll.content_lines) - 1
        entered == [type |-> "EnterPressedInScroll", line_index |-> scroll.current_line]
    IN CASE event = "Escape" ->
              [scroll |-> scroll, board_messages |-> <<[type |-> "CloseScroll"]>>,
               panic |-> FALSE]
         [] event = "Enter" ->
              [scroll |-> scroll,
               board_messages |->
                   IF hovering.link /= None
                   THEN <<[type |-> "LinkClicked", link_label |-> hovering.link[1]],
                          [type |-> "CloseScroll"], entered>>
                   ELSE <<[type |-> "CloseScroll"], entered>>,
               panic |-> hovering.panic]
         [] event = "Up" ->
              [scroll |-> IF scroll.current_line > 0
                          THEN [scroll EXCEPT !.current_line = @ - 1] ELSE scroll,
               board_messages |-> <<>>, panic |-> FALSE]
         [] event = "Down" ->
              [scroll |-> IF scroll.current_line < last_line
                          THEN [scroll EXCEPT !.current_line = @ + 1] ELSE scroll,
               board_messages |-> <<>>, panic |-> FALSE]
         [] OTHER -> [scroll |-> scroll, board_messages |-> <<>>, panic |-> FALSE]

is_end_of_game(world_header) == world_header.player_health <= 0

\* The messages process_board_message handles here; the others (the side
\* bar's inputs, the front end's files) are not modelled.
HandledMessages ==
    {"OpenScroll", "CloseScroll", "PlaySoundArray", "LinkClicked", "PauseGame",
     "EnterPressedInScroll", "SwitchBoard"}

\* The boards of the model are not dark.
on_player_entered_board(sim) ==
    [sim EXCEPT !.board_meta_data.player_enter_x = AsU8(get_player_location(sim).x),
                !.board_meta_data.player_enter_y = AsU8(get_player_location(sim).y),
                !.world_header.time_passed = 0]

\* The arm of process_board_message for SwitchBoard.  push_blocked keeps
\* the BlockedStatus of the push of the tile the player is to arrive on.
switch_board(engine, board_message) ==
    LET direction == board_message.direction
        original_board_index == engine.board_simulator.world_header.player_board
        new_board_index == AsI16(board_message.new_board_index)
        dest_player_pos(player) ==
            CASE direction = "North" -> [x |-> player.x, y |-> BOARD_HEIGHT - 2]
              [] direction = "South" -> [x |-> player.x, y |-> 1]
              [] direction = "West" -> [x |-> BOARD_WIDTH - 2, y |-> player.y]
              [] direction = "East" -> [x |-> 1, y |-> player.y]
              [] OTHER -> player
        left(sim, boards, pushed) ==
            [engine EXCEPT
               !.board_simulator = [tiles |-> sim.tiles,
                                    status_elements |-> sim.status_elements,
                                    world_header |-> sim.world_header,
                                    board_meta_data |-> sim.board_meta_data],
               !.world = boards,
               !.messages = pushed.sim.accumulated_data.board_messages,
               !.ghost = pushed.sim.ghost,
               !.push_blocked = Some(pushed.blocked)]
        entered(pushed, dest, old_board_player_pos) ==
            on_player_entered_board(
                Call("move_tile", <<pushed.sim, old_board_player_pos.x, old_board_player_pos.y,
                                    dest.x, dest.y>>))
        reverted(pushed, kept) ==
            load_board([pushed.sim EXCEPT !.world_header.player_board = original_board_index],
                       kept.boards[original_board_index])
        after_push(pushed, dest, saved) ==
            IF pushed.sim.fault /= "none" THEN [engine EXCEPT !.fault = pushed.sim.fault]
            ELSE IF pushed.blocked = "NotBlocked"
            THEN left(entered(pushed, dest, get_player_location(pushed.sim)), saved, pushed)
            ELSE left(reverted(pushed,
                               [saved EXCEPT !.boards[new_board_index] = save_board(pushed.sim)]),
                      [saved EXCEPT !.boards[new_board_index] = save_board(pushed.sim)], pushed)
        after_load(loaded, dest, saved) ==
            after_push(Call("push_tile",
                            <<[tiles |-> loaded.tiles, status_elements |-> loaded.status_elements,
                               world_header |-> loaded.world_header,
                               board_meta_data |-> loaded.board_meta_data,
                               accumulated_data |-> [should_check_time_elapsed |-> FALSE,
                                                     board_messages |-> <<>>],
                               report |-> ApplyActionResultReport, fault |-> "none",
                               ghost |-> engine.ghost],
                              dest.x, dest.y,
                              to_offset[direction][1], to_offset[direction][2], TRUE, FALSE, 0,
                              None>>),
                       dest, saved)
        after_save(switched, saved) ==
            after_load(load_board(switched, saved.boards[new_board_index]),
                       dest_player_pos(get_player_location(engine.board_simulator)), saved)
        save(switched) ==
            after_save(switched,
                       [engine.world EXCEPT !.boards[original_board_index] = save_board(switched)])
    IN IF new_board_index \notin DOMAIN engine.world.boards
       THEN [engine EXCEPT !.fault = "index panic"]
       ELSE save([engine.board_simulator EXCEPT !.world_header.player_board = new_board_index])

\* process_board_message on the fields it writes.
process_board_message(engine, board_message) ==
    CASE board_message.type = "SwitchBoard" -> switch_board(engine, board_message)
      [] board_message.type = "OpenScroll" ->
           IF Len(board_message.content_lines) > 1
           THEN [engine EXCEPT !.scroll_state =
                    Some(ScrollState(board_message.title, board_message.content_lines))]
           ELSE engine
      [] board_message.type = "CloseScroll" -> [engine EXCEPT !.scroll_state = None]
      [] board_message.type = "LinkClicked" ->
           [engine EXCEPT !.clicked_link_label = Some(board_message.link_label)]
      [] board_message.type = "PauseGame" ->
           IF ~is_end_of_game(engine.world_header) THEN [engine EXCEPT !.is_paused = TRUE]
           ELSE engine
      [] OTHER -> engine

(***************************************************************************)
(* The boards the engine is started on.  As TestWorld does, each holds the *)
(* player (status 0, cycle 1) and the tiles and statuses set on an empty   *)
(* board; param3, which no modelled behaviour reads or writes, numbers the *)
(* statuses of the board so that a status can be told after the list       *)
(* shifts (a status created later has param3 0).                           *)
(***************************************************************************)
TileIndex(x, y) == x + (y * BOARD_WIDTH)

PlayerStatus(x, y) ==
    [StatusElementDefault EXCEPT !.location_x = x, !.location_y = y, !.cycle = 1, !.param3 = 1]

ObjectStatus(x, y, cycle, tag, code) ==
    [StatusElementDefault EXCEPT !.location_x = x, !.location_y = y, !.cycle = cycle,
                                 !.param3 = tag, !.code_source = Owned(code)]

CentipedeStatus(x, y, tag, step_x, leader, follower) ==
    [StatusElementDefault EXCEPT !.location_x = x, !.location_y = y, !.cycle = 1,
                                 !.param3 = tag, !.step_x = step_x,
                                 !.leader = leader, !.follower = follower]

\* The tiles of a board: the tile of each status, then the other tiles set.
BoardTiles(status_elements, status_tiles, other_tiles) ==
    LET placed == [i \in {TileIndex(status_elements[k].location_x,
                                    status_elements[k].location_y) :
                          k \in DOMAIN status_elements} |->
                     LET k == CHOOSE k \in DOMAIN status_elements :
                                  TileIndex(status_elements[k].location_x,
                                            status_elements[k].location_y) = i
                     IN status_tiles[k]]
    IN [i \in DOMAIN placed \cup DOMAIN other_tiles |->
          IF i \in DOMAIN other_tiles THEN other_tiles[i] ELSE placed[i]]

PlayerTile == BoardTile(ElementType.Player, 31)
ObjectTile == BoardTile(ElementType.Object, 255)
SolidTile == BoardTile(ElementType.Solid, 15)
\* The programs of the boards' objects and scroll, a line of code ending in \r.
\* #die
DieCode ==
    <<"#", "d", "i", "e", "\r">>
\* @b / #end
EndCode ==
    <<"@", "b", "\r", "#", "e", "n", "d", "\r">>
\* #put e object / #end
PutObjectCode ==
    <<"#", "p", "u", "t", " ", "e", " ", "o", "b", "j", "e", "c", "t", "\r", "#", "e", "n",
      "d", "\r">>
\* #put e boulder / #end
PutBoulderCode ==
    <<"#", "p", "u", "t", " ", "e", " ", "b", "o", "u", "l", "d", "e", "r", "\r", "#", "e",
      "n", "d", "\r">>
\* @x / :a / #a
LoopCode ==
    <<"@", "x", "\r", ":", "a", "\r", "#", "a", "\r">>
\* @a / #bind a
BindCode ==
    <<"@", "a", "\r", "#", "b", "i", "n", "d", " ", "a", "\r">>
\* @s / !x;go / text / #end / :x / #end
LinkCode ==
    <<"@", "s", "\r", "!", "x", ";", "g", "o", "\r", "t", "e", "x", "t", "\r", "#", "e",
      "n", "d", "\r", ":", "x", "\r", "#", "e", "n", "d", "\r">>
\* #put w gem / #put e gem / #end
PutGemTwiceCode ==
    <<"#", "p", "u", "t", " ", "w", " ", "g", "e", "m", "\r", "#", "p", "u", "t", " ", "e",
      " ", "g", "e", "m", "\r", "#", "e", "n", "d", "\r">>
\* a / b
ScrollCode ==
    <<"a", "\r", "b", "\r">>
\* #end / :touch / #end
TouchCode ==
    <<"#", "e", "n", "d", "\r", ":", "t", "o", "u", "c", "h", "\r", "#", "e", "n", "d", "\r">>

HeadTile == BoardTile(ElementType.Head, 15)
SegmentTile == BoardTile(ElementType.Segment, 15)
ScrollTile == BoardTile(ElementType.Scroll, 15)

\* A board and the events its host passes to RuzztEngine::step.
Board(status_elements, status_tiles, other_tiles, events) ==
    [status_elements |-> status_elements,
     tiles |-> BoardTiles(status_elements, status_tiles, other_tiles),
     events |-> events]

\* An object that dies before an object of cycle 3.
DieBoard ==
    Board(<<PlayerStatus(30, 12), ObjectStatus(10, 5, 1, 2, DieCode),
            ObjectStatus(12, 5, 3, 3, EndCode)>>,
          <<PlayerTile, ObjectTile, ObjectTile>>, <<>>,
          {"None", "PauseGame"})

\* An object that puts a new object beside it, an object of cycle 2, and a
\* gem and a boulder east of the player.
PutBoard ==
    Board(<<PlayerStatus(30, 12), ObjectStatus(10, 5, 1, 2, PutObjectCode),
            ObjectStatus(10, 8, 2, 3, EndCode)>>,
          <<PlayerTile, ObjectTile, ObjectTile>>,
          (TileIndex(31, 12) :> BoardTile(ElementType.Gem, 13))
            @@ (TileIndex(32, 12) :> BoardTile(ElementType.Boulder, 15)),
          {"None", "Right", "PauseGame"})

\* An object that puts a boulder where the player stands against a wall.
PutPlayerBoard ==
    Board(<<PlayerStatus(30, 12), ObjectStatus(29, 12, 1, 2, PutBoulderCode)>>,
          <<PlayerTile, ObjectTile>>, (TileIndex(31, 12) :> SolidTile),
          {"None", "Right"})

\* An object whose program jumps to itself, and an object of cycle 0.
LoopBoard ==
    Board(<<PlayerStatus(30, 12), ObjectStatus(10, 5, 1, 2, LoopCode),
            ObjectStatus(12, 5, 0, 3, DieCode)>>,
          <<PlayerTile, ObjectTile, ObjectTile>>, <<>>,
          {"None"})

\* An object that binds to its own name.
BindBoard ==
    Board(<<PlayerStatus(30, 12), ObjectStatus(10, 5, 1, 2, BindCode)>>,
          <<PlayerTile, ObjectTile>>, <<>>,
          {"None"})

\* An object that opens a scroll with a link, an object after it, and a
\* scroll east of the player.
LinkBoard ==
    Board(<<PlayerStatus(30, 12), ObjectStatus(10, 5, 1, 2, LinkCode),
            ObjectStatus(12, 5, 1, 3, EndCode), ObjectStatus(31, 12, 1, 4, ScrollCode)>>,
          <<PlayerTile, ObjectTile, ObjectTile, ScrollTile>>, <<>>,
          {"None", "Right", "Enter"})

\* An object that puts a gem over the object before it in the list, and an
\* object after it.
PreemptBoard ==
    Board(<<PlayerStatus(30, 12), ObjectStatus(10, 5, 1, 2, EndCode),
            ObjectStatus(11, 5, 1, 3, PutGemTwiceCode),
            ObjectStatus(20, 5, 1, 4, EndCode)>>,
          <<PlayerTile, ObjectTile, ObjectTile, ObjectTile>>, <<>>,
          {"None"})

\* A centipede in a walled corridor (x 19..23 of row 5) with a loose segment
\* below its tail, and an object between its head and its segments in the
\* list that dies in the second simulation step.
CentipedeBoard ==
    Board(<<PlayerStatus(30, 12), CentipedeStatus(21, 5, 3, 1, -1, 3),
            ObjectStatus(40, 20, 3, 2, DieCode), CentipedeStatus(20, 5, 4, 0, 1, 4),
            CentipedeStatus(19, 5, 5, 0, 3, -1), CentipedeStatus(19, 6, 6, 0, -1, -1)>>,
          <<PlayerTile, HeadTile, ObjectTile, SegmentTile, SegmentTile, SegmentTile>>,
          [i \in {TileIndex(x, 4) : x \in 18 .. 24} \cup {TileIndex(x, 6) : x \in 20 .. 24}
                 \cup {TileIndex(18, 5), TileIndex(24, 5), TileIndex(18, 6), TileIndex(19, 7)}
             |-> SolidTile],
          {"None"})

\* A centipede of a head and a segment walking at the player.
MonsterBoard ==
    Board(<<PlayerStatus(30, 12), CentipedeStatus(28, 12, 2, 1, -1, 2),
            CentipedeStatus(27, 12, 3, 0, 1, -1)>>,
          <<PlayerTile, HeadTile, SegmentTile>>, <<>>,
          {"None", "Left"})

\* The boards of the scripts.
\* 1. An object named a, two objects that bind to it, and between them an
\*    object of cycle 3 that puts a boulder over it in the third simulation
\*    step:  @a / #end    #bind a    #put e boulder / #end
\* 2. A scroll east of the player whose program puts a boulder over the
\*    object east of it, which is before it in the list:
\*    #put e boulder / #end
\* 3. An object with an unknown command:  #foo / #die
\* 4. An object that moves in a direction that is none:  /x / #die
\* 5. Two objects that move east, each with an object east of it that moves
\*    out of its way in the first simulation step:
\*    /e#go i / #die    /e / #end    #go e / #end    /e / #end
\* 6. Objects that take from the player, who has 100 health and nothing else:
\*    #take health 30 go e / #end    #take time 3 end / #end
\*    #take ammo 40000 / #end    #take torches 1 end    #take health 90 go e / #end
\* 7. An object that sets a flag twice:  #set a / #set A / #end
\* 8. The player's bullet flying east at an object beside it, and another
\*    bullet two cells west of the player flying east:  #end / :shot / #lock / #end
\* 9. A row of three bullets of the player flying east, the bullet furthest
\*    east first in the list, as the player's shots leave them.
\* 10. The same row, the bullet furthest west first in the list.
\* 11. The same row, in the list the bullet furthest west, then the one
\*     furthest east, then the one between them.
OopBoards ==
    <<Board(<<PlayerStatus(30, 12),
              ObjectStatus(10, 5, 1, 2, <<"@", "a", "\r", "#", "e", "n", "d", "\r">>),
              ObjectStatus(20, 5, 1, 3, <<"#", "b", "i", "n", "d", " ", "a", "\r">>),
              ObjectStatus(9, 5, 3, 4, PutBoulderCode),
              ObjectStatus(22, 5, 1, 5, <<"#", "b", "i", "n", "d", " ", "a", "\r">>)>>,
            <<PlayerTile, ObjectTile, ObjectTile, ObjectTile, ObjectTile>>, <<>>,
            {"None"}),
      Board(<<PlayerStatus(30, 12), ObjectStatus(32, 12, 1, 2, EndCode),
              ObjectStatus(31, 12, 1, 3, PutBoulderCode)>>,
            <<PlayerTile, ObjectTile, ScrollTile>>, <<>>,
            {"None", "Right"}),
      Board(<<PlayerStatus(30, 12),
              ObjectStatus(10, 5, 1, 2, <<"#", "f", "o", "o", "\r", "#", "d", "i", "e", "\r">>)>>,
            <<PlayerTile, ObjectTile>>, <<>>,
            {"None", "Enter"}),
      Board(<<PlayerStatus(30, 12),
              ObjectStatus(10, 5, 1, 2, <<"/", "x", "\r", "#", "d", "i", "e", "\r">>)>>,
            <<PlayerTile, ObjectTile>>, <<>>,
            {"None"}),
      Board(<<PlayerStatus(30, 12),
              ObjectStatus(10, 5, 1, 2, <<"/", "e", "#", "g", "o", " ", "i", "\r",
                                          "#", "d", "i", "e", "\r">>),
              ObjectStatus(11, 5, 1, 3, <<"/", "e", "\r", "#", "e", "n", "d", "\r">>),
              ObjectStatus(10, 8, 1, 4, <<"#", "g", "o", " ", "e", "\r",
                                          "#", "e", "n", "d", "\r">>),
              ObjectStatus(11, 8, 1, 5, <<"/", "e", "\r", "#", "e", "n", "d", "\r">>)>>,
            <<PlayerTile, ObjectTile, ObjectTile, ObjectTile, ObjectTile>>, <<>>,
            {"None"}),
      Board(<<PlayerStatus(30, 12),
              ObjectStatus(10, 5, 1, 2,
                  <<"#", "t", "a", "k", "e", " ", "h", "e", "a", "l", "t", "h", " ", "3", "0",
                    " ", "g", "o", " ", "e", "\r", "#", "e", "n", "d", "\r">>),
              ObjectStatus(10, 8, 1, 3,
                  <<"#", "t", "a", "k", "e", " ", "t", "i", "m", "e", " ", "3", " ",
                    "e", "n", "d", "\r", "#", "e", "n", "d", "\r">>),
              ObjectStatus(10, 11, 1, 4,
                  <<"#", "t", "a", "k", "e", " ", "a", "m", "m", "o", " ",
                    "4", "0", "0", "0", "0", "\r", "#", "e", "n", "d", "\r">>),
              ObjectStatus(10, 14, 1, 5,
                  <<"#", "t", "a", "k", "e", " ", "t", "o", "r", "c", "h", "e", "s", " ", "1",
                    " ", "e", "n", "d", "\r">>),
              ObjectStatus(10, 17, 1, 6,
                  <<"#", "t", "a", "k", "e", " ", "h", "e", "a", "l", "t", "h", " ", "9", "0",
                    " ", "g", "o", " ", "e", "\r", "#", "e", "n", "d", "\r">>)>>,
            <<PlayerTile, ObjectTile, ObjectTile, ObjectTile, ObjectTile, ObjectTile>>, <<>>,
            {"None"}),
      Board(<<PlayerStatus(30, 12),
              ObjectStatus(10, 5, 1, 2, <<"#", "s", "e", "t", " ", "a", "\r",
                                          "#", "s", "e", "t", " ", "A", "\r",
                                          "#", "e", "n", "d", "\r">>)>>,
            <<PlayerTile, ObjectTile>>, <<>>,
            {"None"}),
      Board(<<PlayerStatus(30, 12),
              [StatusElementDefault EXCEPT !.location_x = 10, !.location_y = 5, !.cycle = 1,
                                           !.param3 = 2, !.step_x = 1],
              ObjectStatus(11, 5, 1, 3, <<"#", "e", "n", "d", "\r", ":", "s", "h", "o", "t", "\r",
                                          "#", "l", "o", "c", "k", "\r",
                                          "#", "e", "n", "d", "\r">>),
              [StatusElementDefault EXCEPT !.location_x = 28, !.location_y = 12, !.cycle = 1,
                                           !.param3 = 4, !.step_x = 1, !.param1 = 1]>>,
            <<PlayerTile, BoardTile(ElementType.Bullet, 15), ObjectTile,
              BoardTile(ElementType.Bullet, 15)>>, <<>>,
            {"None"}),
      Board(<<PlayerStatus(30, 12),
              [StatusElementDefault EXCEPT !.location_x = 12, !.location_y = 5, !.cycle = 1,
                                           !.param3 = 2, !.step_x = 1],
              [StatusElementDefault EXCEPT !.location_x = 11, !.location_y = 5, !.cycle = 1,
                                           !.param3 = 3, !.step_x = 1],
              [StatusElementDefault EXCEPT !.location_x = 10, !.location_y = 5, !.cycle = 1,
                                           !.param3 = 4, !.step_x = 1]>>,
            <<PlayerTile, BoardTile(ElementType.Bullet, 15), BoardTile(ElementType.Bullet, 15),
              BoardTile(ElementType.Bullet, 15)>>, <<>>,
            {"None"}),
      Board(<<PlayerStatus(30, 12),
              [StatusElementDefault EXCEPT !.location_x = 10, !.location_y = 5, !.cycle = 1,
                                           !.param3 = 2, !.step_x = 1],
              [StatusElementDefault EXCEPT !.location_x = 11, !.location_y = 5, !.cycle = 1,
                                           !.param3 = 3, !.step_x = 1],
              [StatusElementDefault EXCEPT !.location_x = 12, !.location_y = 5, !.cycle = 1,
                                           !.param3 = 4, !.step_x = 1]>>,
            <<PlayerTile, BoardTile(ElementType.Bullet, 15), BoardTile(ElementType.Bullet, 15),
              BoardTile(ElementType.Bullet, 15)>>, <<>>,
            {"None"}),
      Board(<<PlayerStatus(30, 12),
              [StatusElementDefault EXCEPT !.location_x = 10, !.location_y = 5, !.cycle = 1,
                                           !.param3 = 2, !.step_x = 1],
              [StatusElementDefault EXCEPT !.location_x = 12, !.location_y = 5, !.cycle = 1,
                                           !.param3 = 3, !.step_x = 1],
              [StatusElementDefault EXCEPT !.location_x = 11, !.location_y = 5, !.cycle = 1,
                                           !.param3 = 4, !.step_x = 1]>>,
            <<PlayerTile, BoardTile(ElementType.Bullet, 15), BoardTile(ElementType.Bullet, 15),
              BoardTile(ElementType.Bullet, 15)>>, <<>>,
            {"None"})>>

\* Boards with a time limit of one second that the player entered at (5, 5):
\* one that restarts the player when zapped, and one that does not, whose
\* player has 5 health left.  limits holds the fields of the board's meta
\* data and of the world header that differ from the other boards'.
TimeBoards ==
    <<[status_elements |-> <<PlayerStatus(30, 12)>>,
       tiles |-> BoardTiles(<<PlayerStatus(30, 12)>>, <<PlayerTile>>, <<>>),
       events |-> {"None"},
       limits |-> [time_limit |-> 1, restart_on_zap |-> TRUE, player_enter_x |-> 5,
                   player_enter_y |-> 5, player_health |-> 100]],
      [status_elements |-> <<PlayerStatus(30, 12)>>,
       tiles |-> BoardTiles(<<PlayerStatus(30, 12)>>, <<PlayerTile>>, <<>>),
       events |-> {"None"},
       limits |-> [time_limit |-> 1, restart_on_zap |-> FALSE, player_enter_x |-> 5,
                   player_enter_y |-> 5, player_health |-> 5]]>>

\* The boards of the tests centipede_form_heads and centipede_walk: the room
\*     ######
\*     #.##.#
\*     #....#
\*     #.####
\*     ###...
\* at (10, 10) with the player at (1, 1), and in it a head in the dead end
\* at (14, 11) above a row of four segments, or a head at the east end of a
\* row of three segments with a fourth above the west end.  The statuses
\* are in the order insert_template adds them, row by row.
CentipedeTestBoards ==
    LET room == [i \in {TileIndex(x, 10) : x \in 10 .. 15}
                       \cup {TileIndex(x, 11) : x \in {10, 12, 13, 15}}
                       \cup {TileIndex(x, 12) : x \in {10, 15}}
                       \cup {TileIndex(x, 13) : x \in {10, 12, 13, 14, 15}}
                       \cup {TileIndex(x, 14) : x \in {10, 11, 12}}
                   |-> BoardTile(ElementType.Normal, 255)]
        head == BoardTile(ElementType.Head, 255)
        segment == BoardTile(ElementType.Segment, 255)
    IN <<Board(<<PlayerStatus(1, 1), CentipedeStatus(14, 11, 2, 0, -1, -1),
                 CentipedeStatus(11, 12, 3, 0, -1, -1), CentipedeStatus(12, 12, 4, 0, -1, -1),
                 CentipedeStatus(13, 12, 5, 0, -1, -1), CentipedeStatus(14, 12, 6, 0, -1, -1)>>,
               <<PlayerTile, head, segment, segment, segment, segment>>, room, {"None"}),
         Board(<<PlayerStatus(1, 1), CentipedeStatus(11, 11, 2, 0, -1, -1),
                 CentipedeStatus(11, 12, 3, 0, -1, -1), CentipedeStatus(12, 12, 4, 0, -1, -1),
                 CentipedeStatus(13, 12, 5, 0, -1, -1), CentipedeStatus(14, 12, 6, 0, -1, -1)>>,
               <<PlayerTile, segment, segment, segment, segment, head>>, room, {"None"})>>

\* Boards the player leaves over the east edge, and the boards east of them.
\* On the boards entered the tile the player is to arrive on, at (1, 12), is
\* a solid, an object with a label touch, empty, or a boulder with an empty
\* tile east of it; the boards left have the player at (60, 12) and each
\* the next of the boards entered as its exit to the east.  first is the
\* index of the first of them in the world.
SwitchBoardsFrom(first) ==
    LET entered(status_elements, status_tiles, other_tiles) ==
            Board(<<PlayerStatus(30, 12)>> \o status_elements, <<PlayerTile>> \o status_tiles,
                  other_tiles, {"None"})
        left(k) ==
            Board(<<PlayerStatus(60, 12)>>, <<PlayerTile>>, <<>>,
                  {"None", "Right", "Left", "PauseGame"})
            @@ [exits |-> [exit_north |-> 0, exit_south |-> 0, exit_west |-> 0,
                           exit_east |-> first + k]]
    IN <<entered(<<>>, <<>>, (TileIndex(1, 12) :> SolidTile)),
         entered(<<ObjectStatus(1, 12, 1, 2, TouchCode)>>, <<ObjectTile>>, <<>>),
         entered(<<>>, <<>>, <<>>),
         entered(<<>>, <<>>, (TileIndex(1, 12) :> BoardTile(ElementType.Boulder, 14))),
         left(0), left(1), left(2), left(3)>>

\* The simulation steps the engine is run for on the board of push_blocks.
MaxPusherCycle == 12

\* The world of the test push_blocks: the player at (1, 1) and the template
\* >######## at (10, 10), a pusher of cycle 3 stepping east and eight
\* boulders.
PusherBoard ==
    Board(<<PlayerStatus(1, 1),
            [StatusElementDefault EXCEPT !.location_x = 10, !.location_y = 10,
                                         !.cycle = 3, !.step_x = 1, !.param3 = 2]>>,
          <<PlayerTile, BoardTile(ElementType.Pusher, 255)>>,
          [i \in {TileIndex(x, 10) : x \in 11 .. 18} |-> BoardTile(ElementType.Boulder, 255)],
          {"None"}) @@ [cycles |-> MaxPusherCycle]

\* A scroll east of the player whose text has a link.
ScrollLinkBoard ==
    Board(<<PlayerStatus(30, 12), ObjectStatus(31, 12, 1, 4, LinkCode)>>,
          <<PlayerTile, ScrollTile>>, <<>>,
          {"None", "Right", "Enter"})

\* A scroll east of the player whose program puts a boulder over the object
\* east of it, which is before it in the list, and an object after it.
ScrollPutBoard ==
    Board(<<PlayerStatus(30, 12), ObjectStatus(32, 12, 1, 2, EndCode),
            ObjectStatus(31, 12, 1, 3, PutBoulderCode), ObjectStatus(10, 5, 1, 4, EndCode)>>,
          <<PlayerTile, ObjectTile, ScrollTile, ObjectTile>>, <<>>,
          {"None", "Right"})

\* A fake wall east of the player.
FakeBoard ==
    Board(<<PlayerStatus(30, 12)>>, <<PlayerTile>>,
          (TileIndex(31, 12) :> BoardTile(ElementType.Fake, 14)),
          {"None", "Right", "PauseGame"})

EarlierBoards ==
    <<DieBoard, PutBoard, PutPlayerBoard, LoopBoard, BindBoard, LinkBoard, PreemptBoard,
      CentipedeBoard, MonsterBoard>> \o OopBoards \o TimeBoards \o CentipedeTestBoards
      \o <<PusherBoard, ScrollLinkBoard, ScrollPutBoard, FakeBoard>>

WithSwitchBoards(boards) == boards \o SwitchBoardsFrom(Len(boards) + 1)

Boards == WithSwitchBoards(EarlierBoards)

WorldHeader ==
    [player_board |-> 0, player_health |-> 100, player_gems |-> 0, player_score |-> 0,
     player_ammo |-> 0, player_torches |-> Some(0), energy_cycles |-> 0,
     torch_cycles |-> Some(0), flag_names |-> [i \in 1 .. 10 |-> <<>>], time_passed |-> 0,
     time_passed_ticks |-> 0]

BoardMetaData(player_x, player_y) ==
    [restart_on_zap |-> FALSE, time_limit |-> 0, player_enter_x |-> player_x,
     player_enter_y |-> player_y, exit_north |-> 0, exit_south |-> 0, exit_west |-> 0,
     exit_east |-> 0]
\* The check of the time elapsed after a partial step: the step state, the
\* simulator and the messages of the call as left.
check_time_elapsed(step_state, sim, board_messages, new_time_passed_ticks) ==
    LET difference == new_time_passed_ticks - sim.world_header.time_passed_ticks
        diff == IF difference < 0 THEN difference + 6000 ELSE difference
        passed == [sim EXCEPT !.world_header.time_passed = @ + 1,
                              !.world_header.time_passed_ticks = new_time_passed_ticks]
        time_left == passed.board_meta_data.time_limit - passed.world_header.time_passed
        warned == IF time_left = 10
                  THEN Append(board_messages,
                              OpenScroll(<<>>, <<<<"R", "u", "n", "n", "i", "n", "g", " ",
                                                   "o", "u", "t", " ", "o", "f", " ",
                                                   "t", "i", "m", "e", "!">>>>))
                  ELSE board_messages
        hurt == [passed EXCEPT
                   !.world_header.player_health = IF @ - 10 > 0 THEN @ - 10 ELSE 0,
                   !.accumulated_data = [should_check_time_elapsed |-> FALSE,
                                         board_messages |-> warned]]
        restarted == restart_player_on_board(hurt)
        cleared == [step_state EXCEPT !.accumulated_data.should_check_time_elapsed = FALSE]
        untimed(checked) == [checked EXCEPT !.ghost.timeout = None]
    IN IF ~step_state.accumulated_data.should_check_time_elapsed
       THEN [step_state |-> step_state, sim |-> untimed(sim), board_messages |-> board_messages]
       ELSE IF diff < 100
       THEN [step_state |-> cleared, sim |-> untimed(sim), board_messages |-> board_messages]
       ELSE IF passed.board_meta_data.time_limit <= 0
       THEN [step_state |-> cleared, sim |-> untimed(passed), board_messages |-> board_messages]
       ELSE IF time_left >= 0
       THEN [step_state |-> cleared, sim |-> untimed(passed), board_messages |-> warned]
       ELSE [step_state |-> cleared,
             sim |-> [restarted EXCEPT
                        !.ghost.timeout = Some([player_health |-> sim.world_header.player_health,
                                                player |-> get_player_location(sim)])],
             board_messages |-> restarted.accumulated_data.board_messages]

Call(f, args) ==
    CASE f = "remove_status_for_pos" ->
           remove_status_for_pos(args[1], args[2], args[3])
      [] f = "move_tile" ->
           move_tile(args[1], args[2], args[3], args[4], args[5])
      [] f = "find_label" ->
           find_label(args[1], args[2])
      [] f = "parse_direction" ->
           parse_direction(args[1], args[2], args[3])
      [] f = "parse_tile_type_desc" ->
           parse_tile_type_desc(args[1], args[2])
      [] f = "parse_message" ->
           parse_message(args[1], args[2])
      [] f = "apply_message_desc_label_operation" ->
           apply_message_desc_label_operation(args[1], args[2], args[3], args[4])
      [] f = "parse_command" ->
           parse_command(args[1], args[2], args[3], args[4])
      [] f = "parse_action" ->
           parse_action(args[1], args[2], args[3], args[4])
      [] f = "get_status_code" ->
           get_status_code(args[1], args[2])
      [] f = "oop_next_step" ->
           oop_next_step(args[1], args[2], args[3], args[4])
      [] f = "oop_finalise" ->
           oop_finalise(args[1], args[2], args[3])
      [] f = "damage_other" ->
           damage_other(args[1], args[2], args[3])
      [] f = "add_monster_touch_player_actions" ->
           add_monster_touch_player_actions(args[1], args[2], args[3])
      [] f = "push" ->
           push(args[1], args[2], args[3], args[4], args[5], args[6])
      [] f = "PlayerBehaviour_step" ->
           PlayerBehaviour_step(args[1], args[2], args[3], args[4])
      [] f = "ScrollBehaviour_step" ->
           ScrollBehaviour_step(args[1], args[2])
      [] f = "ObjectBehaviour_step" ->
           ObjectBehaviour_step(args[1], args[2], args[3])
      [] f = "SegmentBehaviour_step" ->
           SegmentBehaviour_step(args[1], args[2])
      [] f = "BulletBehaviour_step" ->
           BulletBehaviour_step(args[1], args[2], args[3])
      [] f = "damage_shot" ->
           damage_shot(args[1], args[2], args[3], args[4])
      [] f = "reverse_walk" ->
           reverse_walk(args[1], args[2], args[3], args[4], args[5], args[6])
      [] f = "reverse_centipede" ->
           reverse_centipede(args[1], args[2], args[3], args[4])
      [] f = "do_intelligence_and_deviance" ->
           do_intelligence_and_deviance(args[1], args[2], args[3], args[4])
      [] f = "end_of_tail" ->
           end_of_tail(args[1], args[2], args[3], args[4], args[5])
      [] f = "join_segments" ->
           join_segments(args[1], args[2], args[3], args[4], args[5], args[6])
      [] f = "move_head" ->
           move_head(args[1], args[2], args[3], args[4])
      [] f = "do_step" ->
           do_step(args[1], args[2], args[3], args[4])
      [] f = "follow_moves" ->
           follow_moves(args[1], args[2], args[3], args[4], args[5], args[6])
      [] f = "CentipedeMovementContinuation_next_step" ->
           CentipedeMovementContinuation_next_step(args[1], args[2])
      [] f = "step" ->
           step(args[1], args[2], args[3], args[4], args[5], args[6])
      [] f = "restart_player_on_board" ->
           restart_player_on_board(args[1])
      [] f = "others_apply_label" ->
           others_apply_label(args[1], args[2], args[3])
      [] f = "apply_action" ->
           apply_action(args[1], args[2], args[3], args[4], args[5], args[6])
      [] f = "apply_actions" ->
           apply_actions(args[1], args[2], args[3], args[4], args[5], args[6])
      [] f = "push_tile" ->
           push_tile(args[1], args[2], args[3], args[4], args[5], args[6], args[7], args[8], args[9])
      [] f = "next_step" ->
           next_step(args[1], args[2], args[3], args[4], args[5])
      [] f = "finalise" ->
           finalise(args[1], args[2], args[3])
      [] f = "process_board_message" ->
           process_board_message(args[1], args[2])
      [] f = "continue_once" ->
           continue_once(args[1], args[2], args[3])
      [] f = "continue_loop" ->
           continue_loop(args[1], args[2], args[3], args[4])
      [] f = "continue_action_result" ->
           continue_action_result(args[1], args[2], args[3], args[4], args[5], args[6])
      [] f = "apply_action_result" ->
           apply_action_result(args[1], args[2], args[3], args[4], args[5], args[6])
      [] f = "process_status" ->
           process_status(args[1], args[2], args[3], args[4])
      [] f = "partial_step" ->
           partial_step(args[1], args[2], args[3], args[4])

(***************************************************************************)
(* RuzztEngine.  A call of RuzztEngine::step is StepPaused, StepScroll, or *)
(* StepBegin followed by the iterations of its loop (PartialStep) and the  *)
(* rest of the call (StepReturn); step_locals holds the locals of a call   *)
(* in progress.  host_messages are the messages a call returned that the   *)
(* host has still to hand to process_board_message.  fault is "none"       *)
(* until the program panics or loops forever.  ghost and history are       *)
(* history variables.                                                      *)
(***************************************************************************)
VARIABLES board_simulator, board_simulator_step_state, global_cycle, paused_cycle,
          is_paused, scroll_state, clicked_link_label, accumulated_data, step_locals,
          host_messages, fault, ghost, history, world

vars == <<board_simulator, board_simulator_step_state, global_cycle, paused_cycle,
          is_paused, scroll_state, clicked_link_label, accumulated_data, step_locals,
          host_messages, fault, ghost, history, world>>

\* The simulation steps the engine is run for.
MaxCycle == 4
\* The calls made while the game is paused.
MaxPausedCycle == 3

\* The simulation steps the engine is run for on the board being played.
Cycles == world.inputs[board_simulator.world_header.player_board].cycles

\* The events passed to RuzztEngine::step on the board being played.
Events == world.inputs[board_simulator.world_header.player_board].events

\* The values the random number generator returns to the step of status.
RandomFor(sim, status_index) ==
    LET status == At(sim.status_elements, status_index)
        is_head == /\ status_index < Len(sim.status_elements)
                   /\ behaviour_for_pos(sim, status.location_x, status.location_y)
                        = ElementType.Head
        ints(param) == IF is_head /\ param > 0 THEN 0 .. 9 ELSE {0}
    IN [free : IF is_head /\ status.step_x = 0 /\ status.step_y = 0 THEN 0 .. 3 ELSE {0},
        turn : IF is_head THEN BOOLEAN ELSE {FALSE},
        int_x : ints(status.param1), int_y : ints(status.param1),
        int_deviance : ints(status.param2),
        step : IF is_head /\ (status.param1 > 0 \/ status.param2 > 0) THEN 0 .. 2 ELSE {0},
        pick : IF is_head /\ (status.param1 > 0 \/ status.param2 > 0) THEN 0 .. 1 ELSE {0}]

\* (global_time_passed_seconds * 100.) as i16 % 6000, for the times passed in.
Ticks == {0, 150}

\* The simulator record the reducer threads, for the engine's simulator.
Sim(accumulated) ==
    [tiles |-> board_simulator.tiles, status_elements |-> board_simulator.status_elements,
     world_header |-> board_simulator.world_header,
     board_meta_data |-> board_simulator.board_meta_data,
     accumulated_data |-> accumulated, report |-> ApplyActionResultReport,
     fault |-> "none", ghost |-> ghost]

Simulator(sim) ==
    [tiles |-> sim.tiles, status_elements |-> sim.status_elements,
     world_header |-> sim.world_header, board_meta_data |-> sim.board_meta_data]

Tags(status_elements) == [i \in DOMAIN status_elements |-> status_elements[i].param3]

\* The events the host passes to RuzztEngine::step on a board and the number
\* of cycles it simulates there.
Inputs(board) ==
    [events |-> board.events,
     cycles |-> IF "cycles" \in DOMAIN board THEN board.cycles ELSE MaxCycle]

\* The simulator with board b of the world loaded, as load_world leaves it.
Loaded(b, board) ==
    [tiles |-> board.tiles, status_elements |-> board.status_elements,
     world_header |->
         [WorldHeader EXCEPT
            !.player_board = b,
            !.player_health = IF "limits" \in DOMAIN board
                              THEN board.limits.player_health ELSE @],
     board_meta_data |->
         IF "limits" \in DOMAIN board
         THEN [BoardMetaData(board.limits.player_enter_x,
                             board.limits.player_enter_y) EXCEPT
                 !.time_limit = board.limits.time_limit,
                 !.restart_on_zap = board.limits.restart_on_zap]
         ELSE IF "exits" \in DOMAIN board
         THEN [BoardMetaData(board.status_elements[1].location_x,
                             board.status_elements[1].location_y) EXCEPT
                 !.exit_north = board.exits.exit_north,
                 !.exit_south = board.exits.exit_south,
                 !.exit_west = board.exits.exit_west,
                 !.exit_east = board.exits.exit_east]
         ELSE BoardMetaData(board.status_elements[1].location_x,
                            board.status_elements[1].location_y)]

Init ==
    /\ \E b \in DOMAIN Boards : board_simulator = Loaded(b, Boards[b])
    /\ world = [boards |-> [b \in DOMAIN Boards |-> save_board(Loaded(b, Boards[b]))],
               inputs |-> [b \in DOMAIN Boards |-> Inputs(Boards[b])]]
    /\ board_simulator_step_state = None
    /\ global_cycle = 1
    /\ paused_cycle = 1
    /\ is_paused = FALSE
    /\ scroll_state = None
    /\ clicked_link_label = None
    /\ accumulated_data = AccumulatedActionData
    /\ step_locals = None
    /\ host_messages = <<>>
    /\ fault = "none"
    /\ ghost = [running |-> <<>>, late_next_step |-> FALSE, preempted |-> FALSE,
                removed |-> FALSE, ops |-> 0, stepped |-> FALSE, removal |-> None,
                error |-> None, op |-> None, item |-> None, take |-> None,
                shot |-> None, timeout |-> None]
    /\ history = [start |-> <<>>, visited |-> <<>>, link |-> FALSE, complete |-> None,
                  last_process |-> None, suspension |-> None, late_partial |-> FALSE,
                  returned |-> None, write |-> None, parser |-> None, flags |-> None,
                  before |-> None, file |-> None, switch |-> None,
                  paused |-> None, clicked |-> None]

\* The program stops with the simulator as sim: how is "panic", "index panic"
\* (a status index not below the length of the status list was indexed),
\* "overflow panic" (partial_step subtracted more than the processing index)
\* or "hang".
Stopped(how, sim, stopped_ghost) ==
    /\ fault' = how
    /\ board_simulator' = Simulator(sim)
    /\ ghost' = stopped_ghost
    /\ UNCHANGED <<world, board_simulator_step_state, global_cycle, paused_cycle, is_paused,
                   scroll_state, clicked_link_label, accumulated_data, step_locals,
                   host_messages, history>>

Callable == step_locals = None /\ host_messages = <<>> /\ fault = "none"

\* The end of RuzztEngine::step: the messages returned.
end_of_step(board_messages, was_end_of_game, world_header) ==
    IF is_end_of_game(world_header) /\ ~was_end_of_game
    THEN Append(board_messages, PlaySoundArray) ELSE board_messages

\* RuzztEngine::step while the game is paused.
StepPaused(event) ==
    /\ Callable /\ is_paused /\ paused_cycle <= MaxPausedCycle
    /\ LET was_end_of_game == is_end_of_game(board_simulator.world_header)
           board_messages == accumulated_data.board_messages
           taken == [accumulated_data EXCEPT !.board_messages = <<>>]
           move_dir == CASE event = "Left" -> "West" [] event = "Right" -> "East"
                         [] event = "Up" -> "North" [] event = "Down" -> "South"
                         [] OTHER -> "Idle"
           off == to_offset[move_dir]
           player_status == At(board_simulator.status_elements, 0)
           player_x == player_status.location_x
           player_y == player_status.location_y
       IN IF move_dir = "Idle"
          THEN /\ host_messages' = end_of_step(board_messages, was_end_of_game,
                                               board_simulator.world_header)
               /\ accumulated_data' = taken
               /\ paused_cycle' = paused_cycle + 1
               /\ history' = [history EXCEPT !.paused =
                      Some([event |-> event, board_simulator |-> board_simulator,
                            global_cycle |-> global_cycle, paused_cycle |-> paused_cycle,
                            blocked |-> None, entered |-> None,
                            left |-> [board_simulator |-> board_simulator,
                                      global_cycle |-> global_cycle,
                                      paused_cycle |-> paused_cycle + 1]])]
               /\ UNCHANGED <<world, board_simulator, is_paused, ghost, fault>>
          ELSE IF board_simulator.status_elements = <<>> THEN Stopped("index panic", board_simulator, ghost)
          ELSE \E pushed \in {Call("push_tile", <<Sim(taken), player_x + off[1],
                                                  player_y + off[2], off[1], off[2], TRUE,
                                                  FALSE, 0, None>>)} :
            LET old_tile == get_tile(pushed.sim, player_x, player_y)
                left == IF old_tile /= None /\ old_tile[1].element_id = ElementType.Player
                        THEN set_tile(pushed.sim, player_x, player_y,
                                 BoardTile(At(pushed.sim.status_elements, 0).under_element_id,
                                           At(pushed.sim.status_elements, 0).under_colour))
                        ELSE pushed.sim
                moved == [left EXCEPT
                            !.status_elements[1].location_x = AsU8(player_x + off[1]),
                            !.status_elements[1].location_y = AsU8(player_y + off[2])]
                after == IF pushed.blocked = "NotBlocked" THEN moved ELSE pushed.sim
            IN IF pushed.sim.fault /= "none" THEN Stopped(pushed.sim.fault, pushed.sim, pushed.sim.ghost)
               ELSE IF pushed.blocked = "NotBlocked" /\ pushed.sim.status_elements = <<>>
               THEN Stopped("index panic", pushed.sim, pushed.sim.ghost)
               ELSE /\ board_simulator' = Simulator(after)
                    /\ accumulated_data' = after.accumulated_data
                    /\ ghost' = after.ghost
                    /\ is_paused' = (pushed.blocked /= "NotBlocked")
                    /\ host_messages' = end_of_step(board_messages, was_end_of_game,
                                                    after.world_header)
                    /\ paused_cycle' = paused_cycle + 1
                    /\ fault' = fault
                    /\ history' = [history EXCEPT !.paused =
                           Some([event |-> event, board_simulator |-> board_simulator,
                                 global_cycle |-> global_cycle,
                                 paused_cycle |-> paused_cycle,
                                 blocked |-> Some(pushed.blocked),
                                 entered |-> get_tile(pushed.sim, player_x + off[1],
                                                      player_y + off[2]),
                                 left |-> [board_simulator |-> Simulator(after),
                                           global_cycle |-> global_cycle,
                                           paused_cycle |-> paused_cycle + 1]])]
    /\ UNCHANGED <<world, board_simulator_step_state, global_cycle, scroll_state,
                   clicked_link_label, step_locals>>

\* RuzztEngine::step while a scroll is open.
StepScroll(event) ==
    /\ Callable /\ ~is_paused /\ scroll_state /= None
    /\ LET was_end_of_game == is_end_of_game(board_simulator.world_header)
           stepped == scroll_step(scroll_state[1], event)
       IN IF stepped.panic THEN Stopped("panic", board_simulator, ghost)
          ELSE /\ scroll_state' = Some(stepped.scroll)
               /\ host_messages' =
                      end_of_step(accumulated_data.board_messages \o stepped.board_messages,
                                  was_end_of_game, board_simulator.world_header)
               /\ accumulated_data' = [accumulated_data EXCEPT !.board_messages = <<>>]
               /\ UNCHANGED <<world, board_simulator, board_simulator_step_state, global_cycle,
                              paused_cycle, is_paused, clicked_link_label, step_locals,
                              fault, ghost, history>>

\* The cursor the clicked link gives the status: jump_to_label on a parser at 0.
link_instruction(code, label) ==
    LET found == find_label(code, label)
    IN [pos |-> IF found.pos /= None THEN found.pos[1] ELSE 0, panic |-> found.panic]

\* RuzztEngine::step up to its loop: the player's tile is forced, the step
\* state is made or kept, a clicked link is taken.
StepBegin(event) ==
    /\ Callable /\ ~is_paused /\ scroll_state = None /\ global_cycle <= Cycles
    /\ LET was_end_of_game == is_end_of_game(board_simulator.world_header)
           player == get_player_location(board_simulator)
           forced == set_tile(board_simulator, player.x, player.y, PlayerTile)
           fresh == board_simulator_step_state = None
           step_state == IF fresh THEN BoardSimulatorStepState(event, global_cycle)
                         ELSE board_simulator_step_state[1]
           index_opt == step_state.processing_status_index_opt
           linked == clicked_link_label /= None /\ index_opt /= None
           current_status == At(forced.status_elements, index_opt[1])
           source == get_status_code(forced.status_elements, current_status)
           jumped == link_instruction(source.code, clicked_link_label[1])
           sought == IF linked
                     THEN [forced EXCEPT
                             !.status_elements[index_opt[1] + 1].code_current_instruction =
                                 jumped.pos]
                     ELSE forced
       IN IF board_simulator.status_elements = <<>> THEN Stopped("index panic", board_simulator, ghost)
          ELSE IF linked /\ index_opt[1] >= Len(forced.status_elements)
          THEN Stopped("index panic", forced, ghost)
          ELSE IF linked /\ source.fault /= "none" THEN Stopped(source.fault, forced, ghost)
          ELSE IF linked /\ jumped.panic THEN Stopped("panic", forced, ghost)
          ELSE /\ board_simulator' = sought
               /\ board_simulator_step_state' = Some(step_state)
               /\ clicked_link_label' = None
               /\ accumulated_data' = [accumulated_data EXCEPT !.board_messages = <<>>]
               /\ step_locals' =
                      Some([event |-> event,
                            board_messages |-> accumulated_data.board_messages,
                            is_done |-> FALSE,
                            process_same_status |-> clicked_link_label /= None,
                            was_end_of_game |-> was_end_of_game,
                            resumed |-> IF fresh THEN None ELSE Some(index_opt)])
               /\ ghost' = IF fresh THEN [ghost EXCEPT !.removed = FALSE] ELSE ghost
               /\ history' =
                      IF fresh
                      THEN [history EXCEPT !.start = Tags(forced.status_elements),
                                           !.before = Some([status_elements |->
                                                                forced.status_elements,
                                                            tiles |-> forced.tiles]),
                                           !.visited = <<>>,
                                           !.link = clicked_link_label /= None,
                                           !.clicked = None]
                      ELSE [history EXCEPT
                              !.link = @ \/ clicked_link_label /= None,
                              !.clicked =
                                  IF clicked_link_label /= None /\ ghost.op /= None
                                  THEN Some([label |-> clicked_link_label[1],
                                             opener |-> ghost.op[1].tag,
                                             code |-> ghost.op[1].code])
                                  ELSE None]
               /\ UNCHANGED <<world, global_cycle, paused_cycle, is_paused, scroll_state,
                              host_messages, fault>>
\* A loop that goes on while there are messages; the properties of the pause
\* points must tell it from loop_continues.
loop_continues_with_messages(is_done, step_state) == ~is_done

\* The condition of the loop of RuzztEngine::step.
loop_continues(is_done, step_state) ==
    ~is_done /\ step_state.accumulated_data.board_messages = <<>>

\* One iteration of the loop of RuzztEngine::step.
PartialStep ==
    /\ step_locals /= None /\ fault = "none"
    /\ loop_continues(step_locals[1].is_done, board_simulator_step_state[1])
    /\ LET locals == step_locals[1]
           step_state == board_simulator_step_state[1]
           sim == Sim(step_state.accumulated_data)
           status_index == next_status_index(step_state.processing_status_index_opt,
                                             locals.process_same_status)
           in_list == status_index < Len(sim.status_elements)
           status == At(sim.status_elements, status_index)
       IN \E rnd \in RandomFor(sim, status_index), new_time_passed_ticks \in Ticks :
          \E result \in {Call("partial_step",
                                <<step_state, locals.process_same_status, sim, rnd>>)} :
          \E timed \in {check_time_elapsed(result.step_state, result.sim,
                                            locals.board_messages, new_time_passed_ticks)} :
               /\ result.step_state.accumulated_data.should_check_time_elapsed
                    \/ new_time_passed_ticks = 0
               /\ IF result.sim.fault /= "none" THEN Stopped(result.sim.fault, result.sim, result.sim.ghost)
                  ELSE IF timed.sim.status_elements = <<>> THEN Stopped("index panic", timed.sim, timed.sim.ghost)
                  ELSE /\ board_simulator' = Simulator(timed.sim)
                       /\ board_simulator_step_state' = Some(timed.step_state)
                       /\ ghost' = timed.sim.ghost
                       /\ step_locals' =
                              Some([locals EXCEPT !.is_done = result.is_done,
                                                  !.process_same_status = FALSE,
                                                  !.board_messages = timed.board_messages,
                                                  !.resumed = None])
                       /\ history' =
                              IF in_list
                              THEN [history EXCEPT
                                      !.visited = Append(@, status.param3),
                                      !.last_process =
                                          Some([index |-> status_index,
                                                tag |-> status.param3,
                                                cursor |-> status.code_current_instruction,
                                                left |-> [status_elements |->
                                                              timed.sim.status_elements,
                                                          tiles |-> timed.sim.tiles],
                                                cycle |-> status.cycle,
                                                global_cycle |-> step_state.global_cycle,
                                                event |-> step_state.event,
                                                stepped |-> timed.sim.ghost.stepped,
                                                resumed |-> locals.resumed,
                                                suspension |-> history.suspension,
                                                link |-> locals.process_same_status]),
                                      !.late_partial =
                                          @ \/ step_state.accumulated_data.board_messages
                                                 /= <<>>]
                              ELSE history
                       /\ UNCHANGED <<world, global_cycle, paused_cycle, is_paused, scroll_state,
                                      clicked_link_label, accumulated_data, host_messages,
                                      fault>>

\* RuzztEngine::step after its loop.
StepReturn ==
    /\ step_locals /= None /\ fault = "none"
    /\ ~loop_continues(step_locals[1].is_done, board_simulator_step_state[1])
    /\ LET locals == step_locals[1]
           step_state == board_simulator_step_state[1]
           suspending == step_state.accumulated_data.board_messages
       IN /\ host_messages' = end_of_step(locals.board_messages \o suspending,
                                          locals.was_end_of_game,
                                          board_simulator.world_header)
          /\ board_simulator_step_state' =
                 IF locals.is_done THEN None
                 ELSE Some([step_state EXCEPT !.accumulated_data.board_messages = <<>>])
          /\ global_cycle' = IF locals.is_done THEN global_cycle + 1 ELSE global_cycle
          /\ step_locals' = None
          /\ history' =
                 [history EXCEPT
                    !.complete = IF locals.is_done
                                 THEN Some([start |-> history.start,
                                            visited |-> history.visited,
                                            final |-> Tags(board_simulator.status_elements),
                                            removed |-> ghost.removed,
                                            link |-> history.link,
                                            player_tile |->
                                                get_tile(board_simulator,
                                                    get_player_location(board_simulator).x,
                                                    get_player_location(board_simulator).y),
                                            links |->
                                                [i \in DOMAIN board_simulator.status_elements |->
                                                    <<board_simulator.status_elements[i].leader,
                                                      board_simulator.status_elements[i].follower>>]])
                                 ELSE None,
                    !.suspension = IF locals.is_done THEN None
                                   ELSE Some([event |-> step_state.event,
                                              global_cycle |-> step_state.global_cycle,
                                              index_opt |->
                                                  step_state.processing_status_index_opt]),
                    !.returned = Some([suspended |-> suspending /= <<>>,
                                       is_done |-> locals.is_done,
                                       remaining |-> Len(board_simulator.status_elements) - 1
                                           - step_state.processing_status_index_opt[1]])]
          /\ UNCHANGED <<world, board_simulator, paused_cycle, is_paused, scroll_state,
                         clicked_link_label, accumulated_data, fault, ghost>>

\* The host hands the next message returned to process_board_message.
ProcessBoardMessage ==
    /\ step_locals = None /\ fault = "none" /\ host_messages /= <<>>
    /\ Head(host_messages).type \in HandledMessages
    /\ LET engine == [scroll_state |-> scroll_state,
                      clicked_link_label |-> clicked_link_label, is_paused |-> is_paused,
                      world_header |-> board_simulator.world_header,
                      board_simulator |-> board_simulator, world |-> world,
                      messages |-> <<>>, ghost |-> ghost, fault |-> "none",
                      push_blocked |-> None]
       IN \E processed \in {Call("process_board_message", <<engine, Head(host_messages)>>)} :
            /\ scroll_state' = processed.scroll_state
            /\ clicked_link_label' = processed.clicked_link_label
            /\ is_paused' = processed.is_paused
            /\ board_simulator' = processed.board_simulator
            /\ world' = processed.world
            /\ ghost' = processed.ghost
            /\ fault' = processed.fault
            /\ host_messages' = Tail(host_messages) \o processed.messages
            /\ history' =
                   IF Head(host_messages).type = "SwitchBoard"
                   THEN [history EXCEPT !.switch =
                           Some([board_message |-> Head(host_messages),
                                 push_blocked |-> processed.push_blocked,
                                 board_simulator |-> board_simulator, world |-> world,
                                 left |-> [board_simulator |-> processed.board_simulator,
                                           world |-> processed.world,
                                           fault |-> processed.fault]])]
                   ELSE history
    /\ UNCHANGED <<board_simulator_step_state, global_cycle, paused_cycle,
                   accumulated_data, step_locals>>

Next ==
    \/ \E event \in Events : StepPaused(event)
    \/ \E event \in Events : StepScroll(event)
    \/ \E event \in Events : StepBegin(event)
    \/ PartialStep
    \/ StepReturn
    \/ ProcessBoardMessage

Spec == Init /\ [][Next]_vars

(***************************************************************************)
(* The tile writes of the reducer, applied to the boards one at a time at  *)
(* coordinates in and around the grid: Action::SetTile, SetColour,         *)
(* SetTileElementIdAndColour and a MoveTile (without a push) of the tile   *)
(* of status 0.  history.write keeps the write and the tiles before it.    *)
(***************************************************************************)
MaxTileWrites == 2

\* A write of the reducer to a tile: the first any write from the tile of a
\* status, the next ones moves of the status the first one moved.
TileWrite ==
    /\ board_simulator.status_elements /= <<>>
    /\ history.write /= None =>
          /\ history.write[1].kind = "MoveTile"
          /\ history.write[1].count < MaxTileWrites
    /\ \E x \in IF history.write = None THEN {-1, 0, 10, 11, 30, 61, 62} ELSE {10, 30},
          y \in IF history.write = None THEN {-1, 0, 5, 12, 26, 27} ELSE {5, 12},
          kind \in IF history.write = None
                   THEN {"SetTile", "SetColour", "SetTileElementIdAndColour", "MoveTile"}
                   ELSE {"MoveTile"},
          from_index \in IF history.write = None
                         THEN 0 .. Len(board_simulator.status_elements) - 1
                         ELSE {history.write[1].from_index} :
         LET from == At(board_simulator.status_elements, from_index)
             action ==
                 CASE kind = "SetTile" -> SetTile(x, y, BoardTile(ElementType.Gem, 13), None)
                   [] kind = "SetColour" ->
                        [type |-> "SetColour", x |-> x, y |-> y, colour |-> 13]
                   [] kind = "SetTileElementIdAndColour" ->
                        SetTileElementIdAndColour(x, y, Some(ElementType.Gem), Some(13))
                   [] kind = "MoveTile" ->
                        MoveTile(from.location_x, from.location_y, x, y, 0, 0, FALSE, FALSE)
         IN \E written \in {Call("apply_action", <<Sim(accumulated_data), from.location_x,
                                                   from.location_y, action, global_cycle,
                                                   None>>)} :
              /\ board_simulator' = Simulator(written)
              /\ ghost' = written.ghost
              /\ history' = [history EXCEPT !.write =
                                Some([kind |-> kind, x |-> x, y |-> y,
                                      from_x |-> from.location_x, from_y |-> from.location_y,
                                      from_index |-> from_index,
                                      count |-> IF @ = None THEN 1 ELSE @[1].count + 1,
                                      before |-> board_simulator.tiles,
                                      statuses |-> board_simulator.status_elements])]
    /\ UNCHANGED <<world, board_simulator_step_state, global_cycle, paused_cycle, is_paused,
                   scroll_state, clicked_link_label, accumulated_data, step_locals,
                   host_messages, fault>>

TileSpec == Init /\ [][TileWrite]_vars

MaxLabelOperations == 2

\* The codes the label operations are applied to, and the labels looked for.
LabelCodes ==
    {<<"@", "o", "\r", ":", "f", "o", "o", "\r", "#", "e", "n", "d", "\r",
       ":", "f", "o", "o", "\r">>,
     <<":", "f", "o", "o", "\r", "#", "e", "n", "d", "\r">>,
     <<":", "f", "o", "o", "\r", ":", "f", "o", "o", "\r">>,
     <<"#", "e", "n", "d", "\r", ":", "f", "o", "o", "b", "a", "r", "\r",
       ":", "f", "o", "o", "1", "\r", ":", "f", "o", "o", "\r">>,
     <<"#", "e", "n", "d", "\r", ":", "f", "o", "o", "_", "\r",
       ":", "F", "O", "O", " ", "x", "\r">>,
     <<"#", "e", "n", "d", "\r", "'", "f", "o", "o", "\r", ":", "f", "o", "\r">>,
     <<"#", "e", "n", "d", "\r", ":", "f", "o", "o">>,
     <<"#", "e", "n", "d", "\r">>,
     <<"#", "e", "n", "d", "\r", ":", "r", "e", "s", "t", "a", "r", "t", "\r">>,
     <<"#", "e", "n", "d", "\r", " ", ":", "f", "o", "o", "\r", ":", "a", ":", "f", "o", "o", "\r">>}

LabelTargets ==
    {<<"f", "o", "o">>, <<"f", "o">>, <<"f", "o", "o", "1">>, <<"a">>, <<"b", "a", "r">>,
     <<"r", "e", "s", "t", "a", "r", "t">>}

\* A label operation applied by a parser at the end of its code: the first
\* to one of LabelCodes, the next to the code the last one left.
LabelOperation ==
    /\ history.parser /= None =>
          /\ Len(history.parser[1].trace) < MaxLabelOperations
          /\ ~history.parser[1].panic
    /\ \E code \in IF history.parser = None THEN LabelCodes ELSE {history.parser[1].code},
          label \in IF history.parser = None THEN LabelTargets ELSE {history.parser[1].label},
          label_op \in {"Jump", "Zap"} :
         \E applied \in {apply_label_operation(OopParser(code, Len(code)), label, label_op)} :
            history' = [history EXCEPT !.parser =
                Some([code |-> applied.code, label |-> label, panic |-> applied.panic,
                      trace |-> Append(IF history.parser = None THEN <<>>
                                       ELSE history.parser[1].trace,
                                       [label_op |-> label_op, code |-> code,
                                        pos |-> Len(code), pos_after |-> applied.pos,
                                        code_after |-> applied.code,
                                        panic |-> applied.panic])])]
    /\ UNCHANGED <<world, board_simulator, board_simulator_step_state, global_cycle, paused_cycle,
                   is_paused, scroll_state, clicked_link_label, accumulated_data, step_locals,
                   host_messages, fault, ghost>>

LabelSpec == Init /\ [][LabelOperation]_vars

MaxFlagOperations == 2

\* Flag tables that #set and #clear build from the empty one: the empty
\* table, one with its last slot empty, a full one and one with gaps.
FlagTables ==
    {[i \in 1 .. 10 |-> <<>>],
     <<<<"P">>, <<"Q">>, <<"R">>, <<"S">>, <<"T">>, <<"U">>, <<"V">>, <<"W">>, <<"X">>, <<>>>>,
     <<<<"P">>, <<"Q">>, <<"R">>, <<"S">>, <<"T">>, <<"U">>, <<"V">>, <<"W">>, <<"X">>,
       <<"Y">>>>,
     <<<<"B">>, <<>>, <<"A">>, <<>>, <<"A", "B">>, <<>>, <<>>, <<>>, <<>>, <<>>>>}

FlagNames == {<<"a">>, <<"A">>, <<"b">>, <<"a", "b">>, <<"p">>}

\* A SetFlag or a ClearFlag applied: the first to a world whose flags are
\* one of FlagTables, the next to the world the last one left.
FlagOperation ==
    /\ board_simulator.status_elements /= <<>>
    /\ history.flags /= None => Len(history.flags[1]) < MaxFlagOperations
    /\ \E flag_names \in IF history.flags = None THEN FlagTables
                          ELSE {board_simulator.world_header.flag_names},
          name \in FlagNames, type \in {"SetFlag", "ClearFlag"} :
         LET status == At(board_simulator.status_elements, 0)
             sim == [Sim(accumulated_data) EXCEPT !.world_header.flag_names = flag_names]
         IN \E applied \in {Call("apply_action", <<sim, status.location_x, status.location_y,
                                      [type |-> type, name |-> name], global_cycle, None>>)} :
              /\ board_simulator' = Simulator(applied)
              /\ ghost' = applied.ghost
              /\ history' = [history EXCEPT !.flags =
                     Some(Append(IF @ = None THEN <<>> ELSE @[1],
                                 [type |-> type, name |-> name, before |-> flag_names,
                                  after |-> applied.world_header.flag_names]))]
    /\ UNCHANGED <<world, board_simulator_step_state, global_cycle, paused_cycle, is_paused,
                   scroll_state, clicked_link_label, accumulated_data, step_locals,
                   host_messages, fault>>

FlagSpec == Init /\ [][FlagOperation]_vars

(***************************************************************************)
(* zzt_file_format: writing a world to bytes and parsing the bytes.  A     *)
(* stream being written is a sequence of bytes; a stream being read is     *)
(* its bytes, the position of the next byte, and ok, which is FALSE once a *)
(* read has gone past the end (the Err of read_u8).  A board of the file   *)
(* holds its 60 x 25 tiles row by row, its status elements and its meta    *)
(* data; the code of a status is a sequence of bytes.  Of the world header *)
(* the world type and the number of boards are written and read.           *)
(***************************************************************************)
TILE_COUNT == 1500

write_u8(v) == <<v % 256>>
write_i16(v) == <<(v % 65536) % 256, (v % 65536) \div 256>>

Reader(bytes) == [bytes |-> bytes, pos |-> 0, ok |-> TRUE]
skip_bytes(r, n) == [r EXCEPT !.pos = @ + n, !.ok = @ /\ r.pos + n <= Len(r.bytes)]
read_u8(r, offset) ==
    IF r.pos + offset < Len(r.bytes) THEN r.bytes[r.pos + offset + 1] ELSE 0
read_i16(r, offset) == AsI16(read_u8(r, offset) + (256 * read_u8(r, offset + 1)))

\* A DosString written as its length and max_bytes bytes.
write_dos_string(data, max_bytes) ==
    write_u8(Len(data)) \o [i \in 1 .. max_bytes |-> IF i <= Len(data) THEN data[i] ELSE 0]

\* A DosString read from the length at the reader's position and the
\* max_bytes bytes after it.
read_dos_string(r, max_bytes) ==
    LET len == read_u8(r, 0)
        kept == IF len < max_bytes THEN len ELSE max_bytes
    IN [i \in 1 .. kept |-> read_u8(r, i)]

get_save_code_length(code_source) ==
    IF code_source.bound THEN -AsI16(code_source.index) ELSE AsI16(Len(code_source.code))

StatusElement_write(status) ==
    write_u8(status.location_x) \o write_u8(status.location_y)
    \o write_i16(status.step_x) \o write_i16(status.step_y) \o write_i16(status.cycle)
    \o write_u8(status.param1) \o write_u8(status.param2) \o write_u8(status.param3)
    \o write_i16(status.follower) \o write_i16(status.leader)
    \o write_u8(status.under_element_id) \o write_u8(status.under_colour)
    \o <<0, 0, 0, 0>>
    \o write_i16(status.code_current_instruction)
    \o write_i16(get_save_code_length(status.code_source))
    \o [i \in 1 .. 8 |-> 0]
    \o (IF status.code_source.bound THEN <<>>
        ELSE [i \in DOMAIN status.code_source.code |-> status.code_source.code[i] % 256])

\* The status element read at the reader's position, and the reader after it.
StatusElement_parse(r) ==
    LET code_length == read_i16(r, 23)
        fixed == skip_bytes(r, 33)
        after == IF code_length < 0 THEN fixed ELSE skip_bytes(fixed, code_length)
    IN [reader |-> after,
        status |->
            [location_x |-> read_u8(r, 0), location_y |-> read_u8(r, 1),
             step_x |-> read_i16(r, 2), step_y |-> read_i16(r, 4),
             cycle |-> read_i16(r, 6),
             param1 |-> read_u8(r, 8), param2 |-> read_u8(r, 9), param3 |-> read_u8(r, 10),
             follower |-> read_i16(r, 11), leader |-> read_i16(r, 13),
             under_element_id |-> read_u8(r, 15), under_colour |-> read_u8(r, 16),
             code_current_instruction |-> read_i16(r, 21),
             code_source |-> IF code_length < 0 THEN Bound(-code_length)
                             ELSE Owned([i \in 1 .. code_length |-> read_u8(fixed, i - 1)])]]

\* The closure write_tile_run of Board::write, on the state of the loop: the
\* stream, the length of the current run, the working tile, and ok.
write_tile_run(run, tile, run_len) ==
    IF run_len > 256 THEN [run EXCEPT !.ok = FALSE]
    ELSE [run EXCEPT !.stream = @ \o write_u8(IF run_len = 256 THEN 0 ELSE run_len)
                                  \o write_u8(tile.element_id) \o write_u8(tile.colour)]

\* One iteration of the loop over the tiles of Board::write.
write_tile(run, tile) ==
    LET changed == run.working_tile /= None /\ run.working_tile[1] /= tile
        flushed == IF changed
                   THEN [write_tile_run(run, run.working_tile[1], run.current_run_len)
                         EXCEPT !.current_run_len = 0]
                   ELSE run
        counted == [flushed EXCEPT !.current_run_len = @ + 1]
        full == IF counted.current_run_len /= 256 THEN counted
                ELSE IF counted.working_tile = None THEN [counted EXCEPT !.ok = FALSE]
                ELSE [write_tile_run(counted, counted.working_tile[1], counted.current_run_len)
                      EXCEPT !.current_run_len = 0]
    IN [full EXCEPT !.working_tile = Some(tile)]

\* The loop over tiles[first .. last], from the state run; the iterations
\* are taken in the order of the tiles.
RECURSIVE write_tiles(_, _, _, _)
write_tiles(tiles, first, last, run) ==
    IF first > last THEN run
    ELSE IF first = last THEN write_tile(run, tiles[first])
    ELSE LET middle == (first + last) \div 2
             left == write_tiles(tiles, first, middle, run)
         IN IF left.ok THEN write_tiles(tiles, middle + 1, last, left) ELSE left

Board_write(board) ==
    LET meta == board.meta_data
        run == write_tiles(board.tiles, 1, Len(board.tiles),
                           [stream |-> <<>>, current_run_len |-> 0, working_tile |-> None,
                            ok |-> TRUE])
        last_run == IF run.current_run_len > 0
                    THEN write_tile_run(run, run.working_tile[1], run.current_run_len)
                    ELSE run
        RECURSIVE statuses(_)
        statuses(i) == IF i > Len(board.status_elements) THEN <<>>
                       ELSE StatusElement_write(board.status_elements[i]) \o statuses(i + 1)
        stream == write_dos_string(meta.board_name, 50)
                  \o last_run.stream
                  \o write_u8(meta.max_player_shots)
                  \o write_u8(IF meta.is_dark THEN 1 ELSE 0)
                  \o write_u8(meta.exit_north) \o write_u8(meta.exit_south)
                  \o write_u8(meta.exit_west) \o write_u8(meta.exit_east)
                  \o write_u8(IF meta.restart_on_zap THEN 1 ELSE 0)
                  \o write_dos_string(meta.message[1], 58)
                  \o write_u8(meta.player_enter_x) \o write_u8(meta.player_enter_y)
                  \o write_i16(meta.time_limit)
                  \o [i \in 1 .. 16 |-> 0]
                  \o write_i16(Len(board.status_elements) - 1)
                  \o statuses(1)
    IN IF \/ Len(board.tiles) /= TILE_COUNT \/ ~last_run.ok \/ meta.message = None
          \/ Len(board.status_elements) < 1 \/ Len(board.status_elements) > 32767
       THEN [ok |-> FALSE, bytes |-> <<>>]
       ELSE [ok |-> TRUE, bytes |-> write_i16(Len(stream)) \o stream]

\* The loop over the runs of Board::parse.
RECURSIVE parse_tiles(_, _)
parse_tiles(r, tiles) ==
    LET byte == read_u8(r, 0)
        run_length == IF byte = 0 THEN 256 ELSE byte
        tile == BoardTile(read_u8(r, 1), read_u8(r, 2))
        after == skip_bytes(r, 3)
    IN IF Len(tiles) >= TILE_COUNT THEN [reader |-> r, tiles |-> tiles]
       ELSE IF ~after.ok THEN [reader |-> after, tiles |-> tiles]
       ELSE parse_tiles(after, tiles \o [i \in 1 .. run_length |-> tile])

\* The loop over the status elements of Board::parse.
RECURSIVE parse_status_elements(_, _, _)
parse_status_elements(r, count, status_elements) ==
    LET parsed == StatusElement_parse(r)
    IN IF count <= 0 \/ ~r.ok THEN [reader |-> r, status_elements |-> status_elements]
       ELSE parse_status_elements(parsed.reader, count - 1,
                                  Append(status_elements, parsed.status))

\* The board read at the reader's position, and the reader after it.
Board_parse(r) ==
    LET board_size == read_i16(r, 0)
        named == skip_bytes(r, 2)
        board_name == read_dos_string(named, 50)
        tiled == parse_tiles(skip_bytes(named, 51), <<>>)
        p == tiled.reader
        message == read_dos_string(skip_bytes(p, 7), 58)
        q == skip_bytes(p, 7 + 59)
        counted == skip_bytes(q, 2 + 2 + 16 + 2)
        stat_element_count_minus_one == read_i16(q, 2 + 2 + 16)
        listed == parse_status_elements(counted, stat_element_count_minus_one + 1, <<>>)
    IN [reader |-> IF board_size < 0 THEN [named EXCEPT !.ok = FALSE] ELSE listed.reader,
        board |->
            [tiles |-> tiled.tiles,
             status_elements |-> listed.status_elements,
             meta_data |->
                 [board_name |-> board_name,
                  max_player_shots |-> read_u8(p, 0), is_dark |-> read_u8(p, 1) > 0,
                  exit_north |-> read_u8(p, 2), exit_south |-> read_u8(p, 3),
                  exit_west |-> read_u8(p, 4), exit_east |-> read_u8(p, 5),
                  restart_on_zap |-> read_u8(p, 6) = 1,
                  message |-> Some(message),
                  player_enter_x |-> read_u8(q, 0), player_enter_y |-> read_u8(q, 1),
                  time_limit |-> read_i16(q, 2)]]]

World_write(self) ==
    LET header_buf == write_i16(-1) \o write_i16(self.world_header.num_boards_except_title)
        RECURSIVE boards(_)
        boards(i) ==
            LET written == Board_write(self.boards[i])
                rest == boards(i + 1)
            IN IF i > Len(self.boards) THEN [ok |-> TRUE, bytes |-> <<>>]
               ELSE IF ~written.ok THEN written
               ELSE [ok |-> rest.ok, bytes |-> written.bytes \o rest.bytes]
        written_boards == boards(1)
    IN [ok |-> written_boards.ok,
        bytes |-> header_buf \o [i \in 1 .. 512 - Len(header_buf) |-> 0]
                  \o written_boards.bytes]

World_parse(bytes) ==
    LET r == Reader(bytes)
        world_type_num == read_i16(r, 0)
        num_boards_except_title == read_i16(r, 2)
        RECURSIVE boards(_, _, _)
        boards(reader, count, parsed) ==
            LET board == Board_parse(reader)
            IN IF count <= 0 \/ ~reader.ok THEN [reader |-> reader, boards |-> parsed]
               ELSE boards(board.reader, count - 1, Append(parsed, board.board))
        read_boards == boards([r EXCEPT !.pos = 512, !.ok = Len(bytes) >= 4],
                              num_boards_except_title + 1, <<>>)
    IN IF world_type_num \notin {-1, -2} \/ ~read_boards.reader.ok THEN [ok |-> FALSE]
       ELSE [ok |-> TRUE,
             world |-> [world_header |->
                            [num_boards_except_title |-> num_boards_except_title],
                        boards |-> read_boards.boards]]

\* Tiles given as runs of equal tiles, row by row.
RECURSIVE RunsOfTiles(_)
RunsOfTiles(runs) ==
    IF runs = <<>> THEN <<>>
    ELSE [i \in 1 .. Head(runs)[1] |-> Head(runs)[2]] \o RunsOfTiles(Tail(runs))

\* The tiles of Board::zzt_default: a border of yellow normal tiles and the
\* player at (30, 12).
zzt_default_tiles ==
    [i \in 1 .. TILE_COUNT |->
        LET x == (i - 1) % 60
            y == (i - 1) \div 60
        IN IF y = 0 \/ y = 24 \/ x = 0 \/ x = 59 THEN BoardTile(ElementType.Normal, 14)
           ELSE IF i - 1 = 29 + (60 * 11) THEN BoardTile(ElementType.Player, 31)
           ELSE BoardTile(ElementType.Empty, 0)]

\* The tile layouts written: runs shorter than, as long as, and longer than
\* the longest run one triple of bytes holds, in the middle and at the end
\* of the tiles.
FileTiles ==
    LET empty == BoardTile(ElementType.Empty, 0)
        solid == BoardTile(ElementType.Solid, 14)
        gem == BoardTile(ElementType.Gem, 13)
    IN {zzt_default_tiles}
       \cup {RunsOfTiles(runs) :
              runs \in {<<<<TILE_COUNT, empty>>>>,
                        <<<<255, empty>>, <<TILE_COUNT - 255, solid>>>>,
                        <<<<256, empty>>, <<TILE_COUNT - 256, solid>>>>,
                        <<<<257, empty>>, <<TILE_COUNT - 257, solid>>>>,
                        <<<<512, empty>>, <<TILE_COUNT - 512, solid>>>>,
                        <<<<TILE_COUNT - 256, solid>>, <<256, empty>>>>,
                        <<<<1, gem>>, <<256, empty>>, <<TILE_COUNT - 257, solid>>>>,
                        <<<<700, solid>>, <<1, gem>>, <<TILE_COUNT - 701, solid>>>>}}

\* The status lists written: the player alone, with an object that owns its
\* code, and with a second object bound to the first.
FileStatusElements ==
    LET player == [StatusElementDefault EXCEPT !.location_x = 30, !.location_y = 12]
        object == [StatusElementDefault EXCEPT
                     !.location_x = 10, !.location_y = 5, !.cycle = 3, !.step_x = -1,
                     !.param1 = 2, !.param2 = 1, !.under_element_id = ElementType.Water,
                     !.under_colour = 159, !.code_current_instruction = -1,
                     !.code_source = Owned(<<64, 97, 13, 35, 101, 110, 100, 13>>)]
        bound == [StatusElementDefault EXCEPT
                    !.location_x = 11, !.location_y = 5, !.follower = 2, !.leader = -2,
                    !.code_current_instruction = 3, !.code_source = Bound(1)]
    IN {<<player>>, <<player, object>>, <<player, object, bound>>}

FileMetaData ==
    {[board_name |-> <<84, 105, 116, 108, 101>>, max_player_shots |-> 255,
      is_dark |-> FALSE, exit_north |-> 0, exit_south |-> 0, exit_west |-> 0,
      exit_east |-> 0, restart_on_zap |-> FALSE, message |-> Some(<<>>),
      player_enter_x |-> 30, player_enter_y |-> 12, time_limit |-> 0],
     [board_name |-> <<>>, max_player_shots |-> 3,
      is_dark |-> TRUE, exit_north |-> 1, exit_south |-> 2, exit_west |-> 3,
      exit_east |-> 4, restart_on_zap |-> TRUE, message |-> Some(<<72, 105>>),
      player_enter_x |-> 5, player_enter_y |-> 6, time_limit |-> 300]}

FileBoards ==
    [tiles : FileTiles, status_elements : FileStatusElements, meta_data : FileMetaData]

\* The worlds written: every board alone, and a world of two boards.
FileWorlds ==
    {[world_header |-> [num_boards_except_title |-> 0], boards |-> <<board>>] :
       board \in FileBoards}
    \cup {[world_header |-> [num_boards_except_title |-> 1],
           boards |-> <<[tiles |-> zzt_default_tiles,
                         status_elements |-> CHOOSE s \in FileStatusElements : Len(s) = 1,
                         meta_data |-> CHOOSE meta \in FileMetaData : meta.is_dark],
                        [tiles |-> zzt_default_tiles,
                         status_elements |-> CHOOSE s \in FileStatusElements : Len(s) = 3,
                         meta_data |-> CHOOSE meta \in FileMetaData : ~meta.is_dark]>>]}

\* The test basic_save_load on one world: the world is written and the
\* bytes written are parsed.
FileOperation ==
    /\ history.file = None
    /\ \E written_world \in FileWorlds :
         \E written \in {World_write(written_world)} :
           history' = [history EXCEPT !.file =
                          Some([world |-> written_world, written |-> written.ok,
                                parsed |-> IF written.ok THEN World_parse(written.bytes)
                                           ELSE [ok |-> FALSE]])]
    /\ UNCHANGED <<world, board_simulator, board_simulator_step_state, global_cycle, paused_cycle,
                   is_paused, scroll_state, clicked_link_label, accumulated_data,
                   step_locals, host_messages, fault, ghost>>

FileSpec == Init /\ [][FileOperation]_vars

(***************************************************************************)
(* Properties.  history.complete describes the last call of                *)
(* RuzztEngine::step when it completed a simulation step: the tags         *)
(* (param3) of the statuses when the step began, of the statuses visited,  *)
(* in the order visited, and of the statuses left.  The boards give every  *)
(* status a tag of its own; a status made during a step has tag 0.         *)
(***************************************************************************)
Range(seq) == {seq[i] : i \in DOMAIN seq}

Count(seq, v) == Cardinality({i \in DOMAIN seq : seq[i] = v})

Position(seq, v) == CHOOSE i \in DOMAIN seq : seq[i] = v

MaxStatusCycle == 4
MaxStatusIndex == 5

\* C2: the step of the behaviour of a status of cycle c > 0 at index i runs
\* in the simulation step of global cycle g exactly when
\* (g - (i mod c)) mod c = 0, which is once in every c consecutive global
\* cycles; the step of a status of cycle 0 never runs.
C2_StepRunsWhenCycleDue ==
    /\ history.last_process /= None =>
          LET p == history.last_process[1]
          IN p.stepped <=> (IF p.cycle > 0
                            THEN (p.global_cycle - (p.index % p.cycle)) % p.cycle = 0
                            ELSE FALSE)
    /\ \A c \in 1 .. MaxStatusCycle, i \in 0 .. MaxStatusIndex, g \in 1 .. MaxCycle + 1 :
          Cardinality({due \in g .. g + c - 1 : cycle_is_due(due, i, c)}) = 1

\* A status of cycle 3 at an index above 0 had its step run.
C2_Witness ==
    /\ history.last_process /= None
    /\ history.last_process[1].stepped
    /\ history.last_process[1].cycle = 3
    /\ history.last_process[1].index > 0

\* C3: in one call of RuzztEngine::step no partial step begins once the
\* accumulated board messages are non-empty, and the call that returns the
\* messages of a partial step leaves the simulation step incomplete.
C3_NoPartialStepAfterMessage ==
    /\ ~history.late_partial
    /\ (history.returned /= None /\ history.returned[1].suspended)
         => ~history.returned[1].is_done

\* A call returned the messages of a partial step with statuses unvisited.
C3_Witness ==
    /\ history.returned /= None
    /\ history.returned[1].suspended
    /\ history.returned[1].remaining > 0
    /\ board_simulator_step_state /= None

\* C4 as stated: the call that resumes a suspended simulation step processes
\* first the status following the one the step was suspended at.
C4_ResumesAtFollowingStatus ==
    (history.last_process /= None /\ history.last_process[1].resumed /= None)
    => history.last_process[1].index = history.last_process[1].resumed[1][1] + 1

\* The first status a resuming call processes, and the event and global
\* cycle it is processed with, against the step state the suspension left.
C4_ResumedAsSuspended ==
    (history.last_process /= None /\ history.last_process[1].resumed /= None)
    => LET p == history.last_process[1]
       IN /\ p.suspension /= None
          /\ p.resumed[1] = p.suspension[1].index_opt
          /\ p.index = p.resumed[1][1] + (IF p.link THEN 0 ELSE 1)
          /\ p.event = p.suspension[1].event
          /\ p.global_cycle = p.suspension[1].global_cycle

\* global_cycle changes by one, as the step state is dropped.
C4_CycleCountsCompletedSteps ==
    global_cycle' /= global_cycle
    => /\ global_cycle' = global_cycle + 1
       /\ board_simulator_step_state /= None
       /\ board_simulator_step_state' = None

\* C4 amended: the call that resumes a suspended simulation step (the next
\* call made while the game is not paused and no scroll is open) processes
\* first the status following the one the step was suspended at, or that
\* same status again when a link of a scroll was clicked meanwhile, with the
\* event and the global cycle of the step state made when the simulation
\* step began; global_cycle changes only by one, in the call that completes
\* the simulation step.
C4_ResumesSuspendedStep ==
    []C4_ResumedAsSuspended /\ [][C4_CycleCountsCompletedSteps]_vars

\* A suspended step was resumed at the following status.
C4_Witness ==
    /\ history.last_process /= None
    /\ history.last_process[1].resumed /= None
    /\ ~history.last_process[1].link
    /\ history.last_process[1].index = history.last_process[1].resumed[1][1] + 1

\* C5: next_step of a continuation is not invoked after an action applied
\* while the continuation runs, in a nested push too, has removed a status
\* at or below the index of the status being processed.
C5_NoNextStepAfterRemoval == ~ghost.late_next_step

\* A continuation that had not finished was ended by such a removal.
C5_Witness == ghost.preempted /\ ~ghost.late_next_step

\* C6 as stated: a script continuation executes at most 64 operations in one
\* partial step.
C6_AtMost64Operations == ghost.ops <= 64

\* C7 as stated: after every complete simulation step the cell at the
\* location of status 0 holds a Player tile.
C7_PlayerTileAfterStep ==
    history.complete /= None =>
        /\ history.complete[1].player_tile /= None
        /\ history.complete[1].player_tile[1].element_id = ElementType.Player

\* C8 as stated: the status list is never empty and status 0 is the status
\* of the player.
C8_StatusZeroIsPlayer ==
    /\ board_simulator.status_elements /= <<>>
    /\ board_simulator.status_elements[1].param3 = 1

\* C9: after every complete simulation step each leader and follower index
\* is -1, -2 or an index of the status list.
C9_LinksValidAfterStep ==
    history.complete /= None =>
        \A i \in DOMAIN history.complete[1].links :
            \A link \in Range(history.complete[1].links[i]) :
                link \in {-1, -2} \cup (0 .. Len(history.complete[1].links) - 1)

\* A step completed in which a status was removed from below a centipede
\* whose segments are linked.
C9_Witness ==
    /\ history.complete /= None
    /\ history.complete[1].removed
    /\ \E i \in DOMAIN history.complete[1].links :
          /\ history.complete[1].links[i][1] >= 0
          /\ history.complete[1].links[i][2] >= 0

\* C10 as stated: every status whose code source is Bound(i) has i the
\* index of another status, whose code source is owned.
C10_BoundToOwnedOther ==
    \A i \in DOMAIN board_simulator.status_elements :
        LET source == board_simulator.status_elements[i].code_source
        IN source.bound =>
             /\ source.index >= 0
             /\ source.index < Len(board_simulator.status_elements)
             /\ source.index /= i - 1
             /\ ~At(board_simulator.status_elements, source.index).code_source.bound

\* C11: when a status that owns code is removed while other statuses are
\* bound to it, the lowest of them comes to own exactly that code and every
\* other one is bound to the index the new owner has after the removal.
C11_BindersKeepCode ==
    ghost.removal /= None =>
        LET r == ghost.removal[1]
            owner == At(r.before, r.index)
            binders == {i \in 0 .. Len(r.before) - 1 :
                          i /= r.index /\ At(r.before, i) = Bound(r.index)}
            first == CHOOSE i \in binders : \A j \in binders : i <= j
            remap(i) == IF i > r.index THEN i - 1 ELSE i
        IN (~owner.bound /\ binders /= {})
           => /\ At(r.after, remap(first)) = Owned(owner.code)
              /\ \A b \in binders \ {first} : At(r.after, remap(b)) = Bound(remap(first))

\* An owner of code with two statuses bound to it was removed.
C11_Witness ==
    /\ ghost.removal /= None
    /\ ~At(ghost.removal[1].before, ghost.removal[1].index).bound
    /\ At(ghost.removal[1].before, ghost.removal[1].index).code /= <<>>
    /\ Cardinality({i \in DOMAIN ghost.removal[1].before :
                      ghost.removal[1].before[i] = Bound(ghost.removal[1].index)}) >= 2

\* C12 as stated: no status index is indexed in the status list that is not
\* below the length of the list.
C12_StatusIndicesInRange == fault /= "index panic"

\* C13 as stated: a tile write at coordinates outside the grid (x < 0,
\* x >= 62, y < 0 or y >= 27) leaves every cell of the grid as it was (but,
\* for a move, the cell the tile is moved from).
C13_OutOfGridWriteNoOp ==
    history.write /= None =>
        LET w == history.write[1]
            from == TileIndex(w.from_x, w.from_y)
            cell(tiles, i) == IF i \in DOMAIN tiles THEN tiles[i] ELSE NewTile(i)
        IN (w.x < 0 \/ w.x >= BOARD_WIDTH \/ w.y < 0 \/ w.y >= BOARD_HEIGHT)
           => \A i \in 0 .. (BOARD_WIDTH * BOARD_HEIGHT) - 1 :
                 (w.kind = "MoveTile" /\ i = from)
                 \/ cell(board_simulator.tiles, i) = cell(w.before, i)

\* C14 as stated: a next_step of a script that ends in a runtime error
\* finishes the continuation and leaves the cursor of the status at -1.
C14_ErrorHaltsScript ==
    ghost.error /= None => (ghost.error[1].finished /\ ghost.error[1].pos = -1)

\* C15 as stated: a next_step of a script that ends in a runtime error, a
\* direction word after / or ? that is no direction among them, pushes one
\* OpenScroll message, of one line.
C15_ErrorOpensOneScroll ==
    ghost.error /= None =>
        /\ Len(ghost.error[1].scrolls) = 1
        /\ Len(ghost.error[1].scrolls[1].board_message.content_lines) = 1

\* The cursor past the command at start: past the direction word of a /,
\* past the line of a #go.
C16_PastCommand(code, start) ==
    IF At(code, start) = "/" THEN read_word(code, start + 1).pos
    ELSE skip_new_line(code, read_to_end_of_line(code, start))

\* C16: the next_step that checks the move of a / or a #go finishes the
\* turn and leaves the cursor past the command when the move was not
\* blocked, and at the start of the command when it was blocked; a next_step
\* that begins at a #go i leaves the cursor where it was.
C16_MoveAdvancesWhenNotBlocked ==
    ghost.op /= None =>
        LET o == ghost.op[1]
        IN /\ o.async = "Move" =>
                /\ o.finished
                /\ o.pos = IF o.move_was_blocked = "NotBlocked"
                           THEN C16_PastCommand(o.code, o.start) ELSE o.start
           /\ (o.async = "None" /\ o.start >= 0 /\ o.start + 6 <= Len(o.code)
               /\ SubSeq(o.code, o.start + 1, o.start + 6) = <<"#", "g", "o", " ", "i", "\r">>)
              => o.pos = o.start

\* The move of a #go was blocked and the cursor is at the #go.
C16_Witness ==
    /\ ghost.op /= None
    /\ ghost.op[1].async = "Move"
    /\ ghost.op[1].move_was_blocked = "Blocked"
    /\ At(ghost.op[1].code, ghost.op[1].start) = "#"
    /\ ghost.op[1].pos = ghost.op[1].start

\* The #take a checked next_step belongs to: the item word and the number
\* of the command at the start of the action.
C17_Take(o) ==
    LET item == read_word(o.code, skip_spaces(o.code, o.action_start[1] + 5))
    IN [item |-> DosStr(to_lower(item.word)),
        number |-> parse_number(o.code, skip_spaces(o.code, item.pos)).num]

\* The next_step skipped the rest of the line and did nothing else.
C17_Skipped(o) ==
    /\ o.pos = skip_new_line(o.code, read_to_end_of_line(o.code, o.start))
    /\ o.actions = <<>>
    /\ ~o.checks
    /\ ~o.finished

C17_AllOrNothing(o, m) ==
    IF m.before < C17_Take(o).number
    THEN /\ m.after = m.before
         /\ \A i \in 1 .. Len(o.actions) : o.actions[i].type /= "SendBoardMessage"
         /\ ~C17_Skipped(o)
    ELSE /\ m.after = m.before - C17_Take(o).number
         /\ C17_Skipped(o)

C18_LabelLines(code, first_line) ==
    {i \in 0 .. Len(code) - 1 :
        /\ At(code, i) = ":"
        /\ IF i = 0 THEN first_line ELSE At(code, i - 1) = "\r"}

\* The target is a prefix of the label at i, whatever the case, and what
\* follows the prefix is no letter and no underscore.
C18_Matches(code, i, target) ==
    /\ i + Len(target) < Len(code)
    /\ \A k \in 1 .. Len(target) :
          to_ascii_lowercase(At(code, i + k)) = to_ascii_lowercase(target[k])
    /\ i + Len(target) + 1 < Len(code) =>
          LET char_after == At(code, i + Len(target) + 1)
          IN ~(is_ascii_alphabetic(char_after) \/ char_after = "_")

\* The first matching label line, if any.
C18_Selected(code, target, first_line) ==
    LET matching == {i \in C18_LabelLines(code, first_line) : C18_Matches(code, i, target)}
    IN IF matching = {} THEN None
       ELSE Some(CHOOSE i \in matching : \A j \in matching : i <= j)

\* The jump went to the end of the line of the selected label, or left the
\* cursor where it was when no label is selected.
C18_Jumped(op, selected) ==
    /\ ~op.panic
    /\ op.pos_after = IF selected = None THEN op.pos
                      ELSE read_to_end_of_line(op.code, selected[1] + 1)

C19_Commented(code, selected) ==
    IF selected = None THEN code ELSE [code EXCEPT ![selected[1] + 1] = "'"]

\* C19: in a code that ends with a line end, a zap of a label other than
\* restart turns into a comment the label line a jump to the label selects
\* and leaves the rest of the code as it was, and a jump that follows the
\* zap goes where a jump goes in the code so commented.
C19_ZapCommentsJumpTarget ==
    history.parser /= None =>
        \A n \in 1 .. Len(history.parser[1].trace) :
            LET op == history.parser[1].trace[n]
                target == history.parser[1].label
                commented == C19_Commented(op.code, C18_Selected(op.code, target, FALSE))
            IN (/\ op.label_op = "Zap" /\ op.code[Len(op.code)] = "\r"
                /\ DosStr(target) /= "restart")
                 => /\ op.code_after = commented
                    /\ op.pos_after = op.pos
                    /\ (n < Len(history.parser[1].trace)
                         /\ history.parser[1].trace[n + 1].label_op = "Jump")
                          => LET jump == history.parser[1].trace[n + 1]
                             IN jump.pos_after =
                                  LET next == C18_Selected(commented, target, FALSE)
                                  IN IF next = None THEN jump.pos
                                     ELSE read_to_end_of_line(commented, next[1] + 1)

\* The slots of the table that hold the name in upper case.
C20_Slots(flag_names, name) ==
    {i \in 1 .. Len(flag_names) : flag_names[i] = to_upper(name)}

\* C20 as stated: a #set of a flag that is set leaves the table as it was,
\* and after a #set of a flag exactly one slot holds the flag in upper case.
C20_SetIsIdempotent ==
    history.flags /= None =>
        \A n \in 1 .. Len(history.flags[1]) :
            LET op == history.flags[1][n]
            IN op.type = "SetFlag"
                 => /\ C20_Slots(op.before, op.name) /= {} => op.after = op.before
                    /\ Cardinality(C20_Slots(op.after, op.name)) = 1

\* C20 amended: a #set of a flag that is set leaves the table as it was; a
\* #set of a flag that is not set, in a table with an empty slot, puts the
\* flag in upper case in the first empty slot and leaves the other slots as
\* they were, so that exactly one slot holds it; in a table with no empty
\* slot it leaves the table as it was, and no slot holds the flag.
C20_SetIsIdempotentWithRoom ==
    history.flags /= None =>
        \A n \in 1 .. Len(history.flags[1]) :
            LET op == history.flags[1][n]
                empty == {i \in 1 .. Len(op.before) : op.before[i] = <<>>}
            IN op.type = "SetFlag"
                 => IF C20_Slots(op.before, op.name) /= {} \/ empty = {}
                    THEN op.after = op.before
                    ELSE /\ Cardinality(C20_Slots(op.after, op.name)) = 1
                         /\ \A i \in 1 .. Len(op.before) :
                               op.after[i] = IF i \in empty /\ \A j \in empty : i <= j
                                             THEN to_upper(op.name) ELSE op.before[i]

\* Flag a was set in the empty table, and set again as A.
C20_Witness ==
    /\ history.flags /= None
    /\ Len(history.flags[1]) = 2
    /\ history.flags[1][1].type = "SetFlag" /\ history.flags[1][1].name = <<"a">>
    /\ history.flags[1][1].before = [i \in 1 .. 10 |-> <<>>]
    /\ history.flags[1][2].type = "SetFlag" /\ history.flags[1][2].name = <<"A">>
    /\ history.flags[1][2].after = [i \in 1 .. 10 |-> IF i = 1 THEN <<"A">> ELSE <<>>]

\* The number of slots of the table that hold the value.
C21_Count(flag_names, value) ==
    Cardinality({i \in 1 .. Len(flag_names) : flag_names[i] = value})

\* C21: a #clear of a flag that one slot holds, followed by a #set of the
\* same flag, leaves every value in as many slots as before the #clear.
C21_ClearThenSetKeepsMultiset ==
    history.flags /= None =>
        \A n \in 1 .. Len(history.flags[1]) - 1 :
            LET clear == history.flags[1][n]
                set == history.flags[1][n + 1]
            IN (/\ clear.type = "ClearFlag" /\ set.type = "SetFlag"
                /\ to_upper(clear.name) = to_upper(set.name)
                /\ C21_Count(clear.before, to_upper(clear.name)) = 1)
                 => /\ C21_Count(set.after, to_upper(set.name)) = 1
                    /\ \A i \in 1 .. Len(clear.before) :
                          /\ C21_Count(set.after, clear.before[i])
                               = C21_Count(clear.before, clear.before[i])
                          /\ C21_Count(set.after, set.after[i])
                               = C21_Count(clear.before, set.after[i])

\* Flag A of the third slot was cleared and set again, into the second slot.
C21_Witness ==
    /\ history.flags /= None
    /\ Len(history.flags[1]) = 2
    /\ history.flags[1][1].type = "ClearFlag" /\ history.flags[1][1].name = <<"a">>
    /\ history.flags[1][1].before[3] = <<"A">>
    /\ history.flags[1][1].after[3] = <<>>
    /\ history.flags[1][2].type = "SetFlag" /\ history.flags[1][2].name = <<"A">>
    /\ history.flags[1][2].after[2] = <<"A">>
    /\ history.flags[1][2].after[3] = <<>>

\* The tile of the grid at x/y.
C22_TileAt(tiles, x, y) ==
    IF TileIndex(x, y) \in DOMAIN tiles THEN tiles[TileIndex(x, y)]
    ELSE NewTile(TileIndex(x, y))

\* C22: a move-tile from the cell A of one status, a cell of the grid, to
\* another cell B of the grid leaves at B the tile A had, the status at B with the tile B had as
\* its under-fields, and at A the tile the under-fields of the status were;
\* a move-tile from A to A leaves the tiles and the statuses as they were.
C22_MoveTileRelocates ==
    (/\ history.write /= None
     /\ history.write[1].kind = "MoveTile"
     /\ history.write[1].x >= 0 /\ history.write[1].x < BOARD_WIDTH
     /\ history.write[1].y >= 0 /\ history.write[1].y < BOARD_HEIGHT
     /\ history.write[1].from_x < BOARD_WIDTH /\ history.write[1].from_y < BOARD_HEIGHT
     /\ Cardinality({i \in DOMAIN history.write[1].statuses :
                       /\ history.write[1].statuses[i].location_x = history.write[1].from_x
                       /\ history.write[1].statuses[i].location_y = history.write[1].from_y})
          = 1)
        => LET w == history.write[1]
               was == At(w.statuses, w.from_index)
               now == At(board_simulator.status_elements, w.from_index)
           IN IF w.x = w.from_x /\ w.y = w.from_y
              THEN /\ board_simulator.tiles = w.before
                   /\ board_simulator.status_elements = w.statuses
              ELSE /\ C22_TileAt(board_simulator.tiles, w.x, w.y)
                        = C22_TileAt(w.before, w.from_x, w.from_y)
                   /\ now.location_x = w.x /\ now.location_y = w.y
                   /\ BoardTile(now.under_element_id, now.under_colour)
                        = C22_TileAt(w.before, w.x, w.y)
                   /\ C22_TileAt(board_simulator.tiles, w.from_x, w.from_y)
                        = BoardTile(was.under_element_id, was.under_colour)

\* A status that had moved over a board edge moved on, and left the edge
\* where it was.
C22_Witness ==
    /\ history.write /= None
    /\ history.write[1].kind = "MoveTile"
    /\ history.write[1].count = 2
    /\ history.write[1].x /= history.write[1].from_x
    /\ At(history.write[1].statuses, history.write[1].from_index).under_element_id
         = ElementType.BoardEdge
    /\ history.write[1].from_x < BOARD_WIDTH /\ history.write[1].from_y < BOARD_HEIGHT
    /\ C22_TileAt(board_simulator.tiles, history.write[1].from_x, history.write[1].from_y)
         .element_id = ElementType.BoardEdge
    /\ Cardinality({i \in DOMAIN history.write[1].statuses :
                       /\ history.write[1].statuses[i].location_x = history.write[1].from_x
                       /\ history.write[1].statuses[i].location_y = history.write[1].from_y})
          = 1

\* The cursors a jump to the label shot leaves in code: the ends of the
\* lines `:shot` after the first line.
C23_ShotLabelEnds(code) ==
    {c \in 6 .. Len(code) - 1 :
        SubSeq(code, c - 5, c + 1) = <<"\r", ":", "s", "h", "o", "t", "\r">>}

\* The status the bullet of the shot s ran into, after the bullet's removal.
C23_Occupant(s) ==
    At(board_simulator.status_elements,
       IF s.status_opt[1] > s.status_index THEN s.status_opt[1] - 1 ELSE s.status_opt[1])

\* C23: when the cell ahead of a bullet is blocked for bullets, the step of
\* the bullet has called the damage of what stands there: an unlocked
\* object whose program has the label shot has its cursor at that label,
\* and a player who is not energised has lost 10 health.
C23_BulletDamagesWhatBlocksIt ==
    (fault = "none" /\ ghost.shot /= None /\ ghost.shot[1].status_opt /= None) =>
        LET s == ghost.shot[1]
            occupant == C23_Occupant(s)
        IN /\ (/\ s.element_id = ElementType.Object
               /\ occupant.param2 = 0
               /\ ~occupant.code_source.bound
               /\ C23_ShotLabelEnds(occupant.code_source.code) /= {})
              => occupant.code_current_instruction
                   \in C23_ShotLabelEnds(occupant.code_source.code)
           /\ (/\ s.element_id = ElementType.Player
               /\ board_simulator.world_header.energy_cycles <= 0)
              => board_simulator.world_header.player_health = 90

\* A bullet has run into the player, who lost 10 health.
C23_PlayerShot ==
    /\ fault = "none"
    /\ ghost.shot /= None
    /\ ghost.shot[1].element_id = ElementType.Player
    /\ board_simulator.world_header.player_health = 90

\* The statuses of sim that are bullets of the player flying east.
C24_Bullets(sim) ==
    {i \in DOMAIN sim.status_elements :
        LET status == sim.status_elements[i]
            tile_opt == get_tile(sim, status.location_x, status.location_y)
        IN /\ tile_opt /= None /\ tile_opt[1].element_id = ElementType.Bullet
           /\ status.param1 = 0 /\ status.step_x = 1 /\ status.step_y = 0}

\* The bullets of sim are n bullets in the cells a .. a + n - 1 of row y.
C24_IsRow(sim, a, n, y) ==
    /\ Cardinality(C24_Bullets(sim)) = n
    /\ {sim.status_elements[i].location_x : i \in C24_Bullets(sim)} = a .. (a + n - 1)
    /\ \A i \in C24_Bullets(sim) : sim.status_elements[i].location_y = y

\* The simulation step that has just ended began with a row of two bullets
\* or more, all due, and an empty cell east of the row.
C24_RowBefore ==
    /\ fault = "none" /\ history.complete /= None /\ history.before /= None
    /\ step_locals = None /\ board_simulator_step_state = None
    /\ LET before == history.before[1]
           bullets == C24_Bullets(before)
           west == CHOOSE i \in bullets :
                      \A j \in bullets : before.status_elements[i].location_x
                                           <= before.status_elements[j].location_x
           a == before.status_elements[west].location_x
           n == Cardinality(bullets)
           y == before.status_elements[west].location_y
       IN /\ n >= 2
          /\ C24_IsRow(before, a, n, y)
          /\ \A i \in bullets : before.status_elements[i].cycle = 1
          /\ get_tile(before, a + n, y) = Some(BoardTile(ElementType.Empty, 0))

\* The row as the step left it: the same bullets, one cell further east.
C24_RowAfter ==
    LET before == history.before[1]
        bullets == C24_Bullets(before)
        a == CHOOSE x \in {before.status_elements[i].location_x : i \in bullets} :
                \A i \in bullets : x <= before.status_elements[i].location_x
        y == before.status_elements[CHOOSE i \in bullets : TRUE].location_y
    IN C24_IsRow(board_simulator, a + 1, Cardinality(bullets), y)

\* The bullets are in the list from east to west.
C24_EastFirst ==
    \A i, j \in C24_Bullets(history.before[1]) :
        i < j => history.before[1].status_elements[i].location_x
                   > history.before[1].status_elements[j].location_x

\* C24 as stated: a row of adjacent bullets of the player flying east along
\* a clear path is, after each complete simulation step, a row of as many
\* adjacent bullets, in whatever order the bullets are in the status list.
C24_RowKeepsLength ==
    C24_RowBefore => C24_RowAfter

\* C24: a row of adjacent bullets of the player flying east along a clear
\* path, whose statuses are in the list from east to west (the order in
\* which shots fired one after another are added), is after each complete
\* simulation step a row of as many adjacent bullets one cell further east.
C24_EastFirstRowKeepsLength ==
    (C24_RowBefore /\ C24_EastFirst) => C24_RowAfter

\* A row of three bullets listed from east to west has flown on.
C24_Witness ==
    /\ C24_RowBefore /\ C24_EastFirst /\ C24_RowAfter
    /\ Cardinality(C24_Bullets(history.before[1])) = 3
    /\ global_cycle >= 3

\* The creatures of MonsterBoard that have touched the player: each touch
\* removes the status of the creature, and nothing else removes one there.
C25_Touches ==
    Len(MonsterBoard.status_elements) - Len(board_simulator.status_elements)

\* C25: a creature that moves into the player, or that the player walks
\* into, is removed, and while the player is not energised the touch takes
\* exactly 10 health: on the board of the centipede that walks at the
\* player, the health lost is 10 for each creature removed.
C25_TouchTakesTen ==
    (/\ fault = "none"
     /\ Boards[board_simulator.world_header.player_board] = MonsterBoard
     /\ board_simulator.world_header.energy_cycles <= 0)
    => board_simulator.world_header.player_health
         = WorldHeader.player_health - 10 * C25_Touches

\* The head of the centipede has touched the player, who lost 20 health.
C25_TouchTookTwenty ==
    /\ fault = "none"
    /\ Boards[board_simulator.world_header.player_board] = MonsterBoard
    /\ C25_Touches = 1
    /\ board_simulator.world_header.player_health = WorldHeader.player_health - 20

\* C26: a check of the time elapsed that finds the time limit of the board
\* exceeded takes 10 of the player's health, leaving no less than 0, and
\* moves the player to where the board was entered only if the board
\* restarts the player when zapped: on a board that does not, the player
\* stays.
C26_TimeOutRestartsOnlyOnZapBoards ==
    (fault = "none" /\ ghost.timeout /= None) =>
        LET before == ghost.timeout[1]
            meta == board_simulator.board_meta_data
        IN /\ board_simulator.world_header.player_health
                = (IF before.player_health - 10 > 0 THEN before.player_health - 10 ELSE 0)
           /\ IF meta.restart_on_zap
              THEN get_player_location(board_simulator)
                     = [x |-> meta.player_enter_x, y |-> meta.player_enter_y]
              ELSE get_player_location(board_simulator) = before.player

\* The time ran out on a board that does not restart the player when
\* zapped, and the player is where the board was entered.
C26_RestartedWithoutFlag ==
    /\ fault = "none" /\ ghost.timeout /= None
    /\ ~board_simulator.board_meta_data.restart_on_zap
    /\ ghost.timeout[1].player = [x |-> 30, y |-> 12]
    /\ get_player_location(board_simulator) = [x |-> 5, y |-> 5]
    /\ board_simulator.world_header.player_health = 0

\* The element of the tile under the status at index i of simulator sim.
C27_ElementOf(sim, i) ==
    get_tile(sim, At(sim.status_elements, i).location_x,
             At(sim.status_elements, i).location_y)[1].element_id

\* C27: the tick of a segment whose leader is -1 sets its leader to -2 and
\* leaves it a segment, and the tick of a segment whose leader is -2 makes
\* it a head: a segment without a leader that no head takes up is a
\* segment after one tick and a head after two.
C27_SegmentBecomesHeadInTwoTicks ==
    [][(/\ fault' = "none"
        /\ Len(history'.visited) = Len(history.visited) + 1
        /\ history'.last_process[1].stepped
        /\ C27_ElementOf(board_simulator, history'.last_process[1].index)
             = ElementType.Segment)
       => LET i == history'.last_process[1].index
              leader == At(board_simulator.status_elements, i).leader
          IN /\ leader = -1 =>
                  /\ At(board_simulator'.status_elements, i).leader = -2
                  /\ C27_ElementOf(board_simulator', i) = ElementType.Segment
             /\ leader = -2 =>
                  /\ At(board_simulator'.status_elements, i).leader = -2
                  /\ C27_ElementOf(board_simulator', i) = ElementType.Head]_vars

\* The segments of the test centipede_form_heads have become heads, in the
\* second simulation step.
C27_Witness ==
    /\ fault = "none"
    /\ Boards[board_simulator.world_header.player_board] = CentipedeTestBoards[1]
    /\ global_cycle = 3 /\ step_locals = None
    /\ \A i \in 2 .. 5 :
         /\ At(board_simulator.status_elements, i).leader = -2
         /\ C27_ElementOf(board_simulator, i) = ElementType.Head

\* The board of the test centipede_form_heads after steps complete
\* simulation steps.
C28_After(steps) ==
    /\ fault = "none"
    /\ Boards[board_simulator.world_header.player_board] = CentipedeTestBoards[1]
    /\ step_locals = None /\ board_simulator_step_state = None
    /\ global_cycle = steps + 1

\* The statuses of the centipede that are heads.
C28_Heads ==
    {i \in 1 .. 5 :
        get_tile(board_simulator, At(board_simulator.status_elements, i).location_x,
                 At(board_simulator.status_elements, i).location_y)
          = Some(BoardTile(ElementType.Head, 255))}

\* C28 as stated: four segments without a leader in a row below a head in
\* a dead end, all of cycle 1: after one simulation step all five are heads.
C28_AllHeadsAfterOneStep ==
    C28_After(1) => C28_Heads = 1 .. 5

\* C28: after one simulation step the head is a head and the four segments
\* are segments still, where they were, their leaders -2; after two
\* simulation steps all five are heads.
C28_AllHeadsAfterTwoSteps ==
    /\ C28_After(1) =>
         /\ C28_Heads = {1}
         /\ board_simulator.tiles = CentipedeTestBoards[1].tiles
         /\ \A i \in 2 .. 5 : At(board_simulator.status_elements, i).leader = -2
    /\ C28_After(2) =>
         /\ C28_Heads = 1 .. 5
         /\ \A i \in 1 .. 5 :
              /\ At(board_simulator.status_elements, i).location_x
                   = At(CentipedeTestBoards[1].status_elements, i).location_x
              /\ At(board_simulator.status_elements, i).location_y
                   = At(CentipedeTestBoards[1].status_elements, i).location_y

\* Two simulation steps have left five heads.
C28_Witness ==
    C28_After(2) /\ Cardinality(C28_Heads) = 5

\* The statuses (indices from 0) of the centipede of head i in statuses: the
\* head, its follower, the follower of that, as far as the links are those
\* of a list and at most fuel statuses.
RECURSIVE C29_Chain(_, _, _)
C29_Chain(statuses, i, fuel) ==
    LET follower == At(statuses, i).follower
    IN IF fuel = 0 \/ follower < 0 \/ follower >= Len(statuses) THEN <<i>>
       ELSE IF At(statuses, follower).leader /= i THEN <<i>>
       ELSE <<i>> \o C29_Chain(statuses, follower, fuel - 1)

\* The index (from 0) in the simulator now of the status that was at index i
\* when the simulation step began: the statuses of the boards carry a tag
\* each in param3.
C29_Now(i) ==
    CHOOSE j \in 0 .. Len(board_simulator.status_elements) - 1 :
        At(board_simulator.status_elements, j).param3
          = At(history.before[1].status_elements, i).param3

\* The simulation step that has just ended began with the status at index h
\* a head of cycle 1, intelligence 0 and deviance 0 with a step, followers
\* of cycle 1 linked to it, and an empty cell ahead of it; and the player
\* has stood still.
C29_WalkingBefore(h) ==
    LET before == history.before[1]
        head == At(before.status_elements, h)
        chain == C29_Chain(before.status_elements, h, Len(before.status_elements))
    IN /\ get_tile(before, head.location_x, head.location_y)[1].element_id = ElementType.Head
       /\ head.step_x /= 0 \/ head.step_y /= 0
       /\ head.param1 = 0 /\ head.param2 = 0 /\ head.leader < 0
       /\ Len(chain) >= 2
       /\ At(before.status_elements, chain[Len(chain)]).follower < 0
       /\ \A k \in DOMAIN chain :
            /\ At(before.status_elements, chain[k]).cycle = 1
            /\ k > 1 => get_tile(before, At(before.status_elements, chain[k]).location_x,
                                 At(before.status_elements, chain[k]).location_y)[1].element_id
                          = ElementType.Segment
       /\ get_tile(before, head.location_x + head.step_x, head.location_y + head.step_y)
            = Some(BoardTile(ElementType.Empty, 0))
       /\ get_player_location(before) = get_player_location(board_simulator)

\* The centipede of head h as the step left it: the head one cell ahead,
\* every follower where its leader was, and the links as they were.
C29_WalkedAfter(h) ==
    LET before == history.before[1]
        head == At(before.status_elements, h)
        chain == C29_Chain(before.status_elements, h, Len(before.status_elements))
        now(k) == At(board_simulator.status_elements, C29_Now(chain[k]))
        was(k) == At(before.status_elements, chain[k])
    IN /\ \A k \in DOMAIN chain :
            \E j \in DOMAIN board_simulator.status_elements :
                board_simulator.status_elements[j].param3 = was(k).param3
       /\ now(1).location_x = head.location_x + head.step_x
       /\ now(1).location_y = head.location_y + head.step_y
       /\ now(1).step_x = head.step_x /\ now(1).step_y = head.step_y
       /\ \A k \in 2 .. Len(chain) :
            /\ now(k).location_x = was(k - 1).location_x
            /\ now(k).location_y = was(k - 1).location_y
            /\ now(k).leader = C29_Now(chain[k - 1])
            /\ now(k - 1).follower = C29_Now(chain[k])
       /\ \A k \in DOMAIN chain :
            get_tile(board_simulator, now(k).location_x, now(k).location_y)[1].element_id
              = (IF k = 1 THEN ElementType.Head ELSE ElementType.Segment)

\* A complete simulation step has just ended.
C29_StepComplete ==
    /\ fault = "none" /\ history.complete /= None /\ history.before /= None
    /\ step_locals = None /\ board_simulator_step_state = None

\* C29: a simulation step moves a linked centipede whose head (of cycle 1,
\* intelligence 0 and deviance 0) has an empty cell ahead one cell on: the
\* head into the cell ahead, every segment into the cell its leader left,
\* the followers in the order they were.
C29_CentipedeWalks ==
    C29_StepComplete =>
        \A h \in 0 .. Len(history.before[1].status_elements) - 1 :
            C29_WalkingBefore(h) => C29_WalkedAfter(h)

\* A centipede of three has walked two cells in two simulation steps.
C29_Witness ==
    /\ C29_StepComplete
    /\ global_cycle = 3
    /\ \E h \in 0 .. Len(history.before[1].status_elements) - 1 :
         /\ C29_WalkingBefore(h) /\ C29_WalkedAfter(h)
         /\ Len(C29_Chain(history.before[1].status_elements, h, 3)) >= 3
         /\ At(history.before[1].status_elements, h).location_x
              = At(Boards[board_simulator.world_header.player_board].status_elements, h)
                  .location_x + 1

\* C30: after every complete simulation step the links of the centipedes
\* are those of doubly linked lists: the leader of the follower of a status
\* is that status, and the follower of the leader of a status is that
\* status.
C30_LinksAreDoublyLinked ==
    (/\ fault = "none" /\ history.complete /= None
     /\ step_locals = None /\ board_simulator_step_state = None)
    => \A a, b \in 0 .. Len(board_simulator.status_elements) - 1 :
          /\ At(board_simulator.status_elements, a).follower = b
               => At(board_simulator.status_elements, b).leader = a
          /\ At(board_simulator.status_elements, b).leader = a
               => At(board_simulator.status_elements, a).follower = b

\* The centipede of the test centipede_walk after two simulation steps: the
\* head took up the four segments in the first and, in a dead end, the
\* centipede reversed in the second; the segment that was the end of its
\* tail is its head, and the four links are there.
C30_Witness ==
    /\ fault = "none" /\ history.complete /= None
    /\ step_locals = None /\ board_simulator_step_state = None
    /\ Boards[board_simulator.world_header.player_board] = CentipedeTestBoards[2]
    /\ global_cycle = 3
    /\ Cardinality({i \in 1 .. 5 : At(board_simulator.status_elements, i).leader >= 0}) = 4
    /\ Cardinality({i \in 1 .. 5 : At(board_simulator.status_elements, i).follower >= 0}) = 4
    /\ get_tile(board_simulator, At(board_simulator.status_elements, 1).location_x,
                At(board_simulator.status_elements, 1).location_y)[1].element_id
         = ElementType.Head
    /\ At(board_simulator.status_elements, 1).follower >= 0

(***************************************************************************)
(* C31.  The pusher of push_blocks and its line of boulders.               *)
(***************************************************************************)
C31_OnBoard == Boards[board_simulator.world_header.player_board] = PusherBoard

C31_StepComplete ==
    /\ C31_OnBoard /\ fault = "none" /\ history.complete /= None
    /\ step_locals = None /\ board_simulator_step_state = None

\* The steps of the pusher that have run in the simulation steps completed.
C31_Moves == Cardinality({g \in 1 .. global_cycle - 1 : cycle_is_due(g, 1, 3)})

\* The pusher and its eight boulders stand k cells east of where they began,
\* in the same order, and the rest of the row is empty.
C31_Line(k) ==
    /\ Len(board_simulator.status_elements) = 2
    /\ board_simulator.status_elements[2].location_x = 10 + k
    /\ board_simulator.status_elements[2].location_y = 10
    /\ \A x \in 1 .. 60 :
         get_tile(board_simulator, x, 10) =
             Some(IF x = 10 + k THEN BoardTile(ElementType.Pusher, 255)
                  ELSE IF x \in 11 + k .. 18 + k THEN BoardTile(ElementType.Boulder, 255)
                  ELSE BoardTile(ElementType.Empty, 0))

\* C31: a pusher stepping east with a line of boulders before it and free
\* cells beyond moves itself and the whole line one cell east each time its
\* step runs; with cycle 3 the line is 2 cells east after 6 simulation steps
\* and 4 cells east after 12.
C31_PusherShiftsLine ==
    C31_StepComplete =>
        /\ C31_Line(C31_Moves)
        /\ global_cycle = 7 => C31_Line(2)
        /\ global_cycle = 13 => C31_Line(4)

C31_Witness == C31_StepComplete /\ global_cycle = 13 /\ C31_Line(4)

(***************************************************************************)
(* C32.  Writing a world and parsing the bytes written.                    *)
(***************************************************************************)
\* C32 as stated: parsing the bytes produced by writing a valid world W
\* yields a world equal to W.
C32_ParseOfWriteIsTheWorld ==
    history.file /= None =>
        /\ history.file[1].written
        /\ history.file[1].parsed = [ok |-> TRUE, world |-> history.file[1].world]

(***************************************************************************)
(* C33.  history.switch keeps, of the last SwitchBoard message processed,  *)
(* the message, the BlockedStatus of the push of the tile the player was   *)
(* to arrive on, the simulator and the world before the message was        *)
(* processed, and in left the simulator and the world it left.             *)
(***************************************************************************)
C33_Blocked ==
    /\ history.switch /= None
    /\ history.switch[1].left.fault = "none"
    /\ history.switch[1].push_blocked = Some("Blocked")

C33_Destination == history.switch[1].board_message.new_board_index

\* The current board index, grid and status list are as before the message.
C33_CurrentBoardRestored ==
    LET before == history.switch[1].board_simulator
        after == history.switch[1].left.board_simulator
    IN /\ after.world_header.player_board = before.world_header.player_board
       /\ after.tiles = before.tiles
       /\ after.status_elements = before.status_elements

\* C33 as stated: when the tile the player is to arrive on is blocked, the
\* current board index, grid and status list are afterwards as before the
\* message, and the stored destination board is unchanged.
C33_BlockedSwitchChangesNothing ==
    C33_Blocked =>
        /\ C33_CurrentBoardRestored
        /\ history.switch[1].left.world.boards[C33_Destination]
             = history.switch[1].world.boards[C33_Destination]

\* What the push of the arrival tile did to the board entered: the board as
\* stored before, changed only by a cursor set on the status at that tile.
C33_DestinationAfterPush ==
    LET stored == history.switch[1].world.boards[C33_Destination]
        kept == history.switch[1].left.world.boards[C33_Destination]
        player == get_player_location(history.switch[1].board_simulator)
    IN /\ kept.tiles = stored.tiles
       /\ kept.meta_data = stored.meta_data
       /\ Len(kept.status_elements) = Len(stored.status_elements)
       /\ \A i \in DOMAIN stored.status_elements :
            \/ kept.status_elements[i] = stored.status_elements[i]
            \/ /\ stored.status_elements[i].location_x = 1
               /\ stored.status_elements[i].location_y = player.y
               /\ kept.status_elements[i] =
                     [stored.status_elements[i] EXCEPT
                        !.code_current_instruction =
                            kept.status_elements[i].code_current_instruction]

\* C33 amended: when the tile the player is to arrive on is blocked, the
\* current board index, grid and status list are afterwards as before the
\* message, and the stored destination board is as it was but for what the
\* push of the arrival tile did on it (the cursor set on an object touched).
C33_BlockedSwitchKeepsThePush ==
    C33_Blocked => C33_CurrentBoardRestored /\ C33_DestinationAfterPush

\* A blocked switch whose push sent the object at the arrival tile to its
\* label touch.
C33_Witness ==
    /\ C33_Blocked /\ C33_CurrentBoardRestored
    /\ history.switch[1].board_message.direction = "East"
    /\ history.switch[1].left.world.boards[C33_Destination]
         /= history.switch[1].world.boards[C33_Destination]

(***************************************************************************)
(* C34.  history.paused keeps, of the last call of RuzztEngine::step made  *)
(* while the game was paused, the event, the BlockedStatus of the push (if *)
(* the event was a direction), and the simulator and the counters before   *)
(* the call and, in left, after it.                                        *)
(***************************************************************************)
C34_Before == history.paused[1].board_simulator
C34_After == history.paused[1].left.board_simulator

\* The tile the player of the call moved towards.
C34_Towards ==
    LET player == get_player_location(C34_Before)
        event == history.paused[1].event
        off == CASE event = "Left" -> <<-1, 0>> [] event = "Right" -> <<1, 0>>
                 [] event = "Up" -> <<0, -1>> [] event = "Down" -> <<0, 1>>
                 [] OTHER -> <<0, 0>>
    IN [x |-> player.x + off[1], y |-> player.y + off[2]]

\* Nothing but the position of the player has changed in the simulator:
\* the statuses but for the location of status 0, the tiles but for the
\* tile the player left, the world header (counters, keys, flags).
C34_OnlyThePlayerMoved ==
    LET player == get_player_location(C34_Before)
    IN /\ C34_After.world_header = C34_Before.world_header
       /\ C34_After.board_meta_data = C34_Before.board_meta_data
       /\ Len(C34_After.status_elements) = Len(C34_Before.status_elements)
       /\ \A i \in DOMAIN C34_Before.status_elements :
            IF i = 1
            THEN [C34_After.status_elements[i] EXCEPT
                    !.location_x = player.x, !.location_y = player.y]
                 = C34_Before.status_elements[i]
            ELSE C34_After.status_elements[i] = C34_Before.status_elements[i]
       /\ \A x \in 0 .. BOARD_WIDTH - 1, y \in 0 .. BOARD_HEIGHT - 1 :
            (x /= player.x \/ y /= player.y)
                => get_tile(C34_After, x, y) = get_tile(C34_Before, x, y)

C34_CountersAdvance ==
    /\ history.paused[1].left.global_cycle = history.paused[1].global_cycle
    /\ history.paused[1].left.paused_cycle = history.paused[1].paused_cycle + 1

\* C34 as stated: a call made while the game is paused changes nothing in
\* the simulation but the position of the player and the paused cycle.
C34_PausedStepMovesOnlyThePlayer ==
    history.paused /= None => C34_OnlyThePlayerMoved /\ C34_CountersAdvance

\* C34 amended: a call made while the game is paused never changes the
\* global cycle and adds one to the paused cycle; when the event is no
\* direction, or the tile the player moves towards is empty, the player is
\* on that tile after the call and nothing else has changed.  (Towards
\* another tile the call also applies the push of that tile.)
C34_PausedStepMovesThePlayerAndPushes ==
    history.paused /= None =>
        /\ C34_CountersAdvance
        /\ behaviour_for_pos(C34_Before, C34_Towards.x, C34_Towards.y)
               \in {ElementType.Empty, ElementType.Player}
             => /\ C34_OnlyThePlayerMoved
                /\ get_player_location(C34_After) = C34_Towards

\* A call made while the game was paused that moved the player to an empty
\* tile.
C34_Witness ==
    /\ history.paused /= None
    /\ history.paused[1].blocked = Some("NotBlocked")
    /\ behaviour_for_pos(C34_Before, C34_Towards.x, C34_Towards.y) = ElementType.Empty
    /\ get_player_location(C34_After) = C34_Towards
    /\ get_player_location(C34_After) /= get_player_location(C34_Before)
    /\ C34_OnlyThePlayerMoved

(***************************************************************************)
(* C35.  history.clicked keeps, of the call of RuzztEngine::step that took  *)
(* a clicked link into a suspended simulation step, the label of the link,  *)
(* and the tag and the code of the status whose script ran last before the  *)
(* step was suspended (the script that opened the scroll).  last_process    *)
(* keeps the tag and the cursor the status processed had as process_status  *)
(* began.                                                                   *)
(***************************************************************************)
C35_Relinked ==
    /\ history.clicked /= None /\ history.last_process /= None
    /\ history.last_process[1].link

\* C35 as stated: the partial step that follows the click of a link of a
\* scroll processes the status whose script opened the scroll, at the index
\* the step was suspended at, with the cursor of that status at the label
\* clicked.
C35_LinkRerunsTheOpener ==
    C35_Relinked =>
        /\ history.last_process[1].index = history.last_process[1].resumed[1][1]
        /\ history.last_process[1].tag = history.clicked[1].opener
        /\ find_label(history.clicked[1].code, history.clicked[1].label).pos
              = Some(history.last_process[1].cursor)

\* C36 as stated: following the bound references from any status of the
\* list reaches a status that owns its code (or an index out of the list)
\* within as many references as the list has statuses, so that the loop of
\* get_status_index_code ends; a list in which it does not has a cycle of
\* bound references, which the loop follows without end.
C36_CodeResolutionTerminates ==
    \A i \in 0 .. Len(board_simulator.status_elements) - 1 :
        get_status_index_code(board_simulator.status_elements, i,
                              Len(board_simulator.status_elements)) /= -2

(***************************************************************************)
(* C37.  The first partial step of a simulation step processes the player;  *)
(* history.before keeps the statuses and the tiles the step began with and  *)
(* last_process, in left, those the partial step leaves.                    *)
(***************************************************************************)
\* The index, in the list the step began with, of the status of the scroll
\* the player pushes in the first partial step: <<>> when the tile the
\* player moves towards is no scroll with a status.
C37_Scroll ==
    LET before == history.before[1]
        event == history.last_process[1].event
        off == CASE event = "Left" -> <<-1, 0>> [] event = "Right" -> <<1, 0>>
                 [] event = "Up" -> <<0, -1>> [] event = "Down" -> <<0, 1>>
                 [] OTHER -> <<0, 0>>
        x == before.status_elements[1].location_x + off[1]
        y == before.status_elements[1].location_y + off[2]
        at == {i \in DOMAIN before.status_elements :
                 /\ before.status_elements[i].location_x = x
                 /\ before.status_elements[i].location_y = y}
    IN IF /\ history.before /= None /\ history.last_process /= None
          /\ Len(history.visited) = 1 /\ history.last_process[1].index = 0
          /\ history.last_process[1].resumed = None /\ fault = "none"
          /\ TileIndex(x, y) \in DOMAIN before.tiles
          /\ before.tiles[TileIndex(x, y)].element_id = ElementType.Scroll
          /\ at /= {}
       THEN <<CHOOSE i \in at : \A j \in at : i <= j>>
       ELSE <<>>

C38_IndexNeverUnderflows == fault /= "overflow panic"

(***************************************************************************)
(* C39.  history.paused keeps, of the last call of RuzztEngine::step made  *)
(* while the game was paused, the simulator before the call, the simulator *)
(* the call left, and the tile of the cell the player was moved to as      *)
(* push_tile left it.                                                      *)
(***************************************************************************)
C39_Before == history.paused[1].board_simulator
C39_After == history.paused[1].left.board_simulator
C39_From == get_player_location(C39_Before)
C39_To == get_player_location(C39_After)

\* A call made while the game was paused that moved the player.
C39_Moved ==
    /\ history.paused /= None
    /\ history.paused[1].blocked = Some("NotBlocked")
    /\ history.paused[1].entered /= None
    /\ C39_To /= C39_From

\* C39: when the player moves while the game is paused, the cell it leaves
\* shows the tile that was beneath the player, and the under-fields of the
\* player become the tile the cell it enters held.
C39_PausedMoveKeepsWhatIsBeneath ==
    C39_Moved =>
        /\ get_tile(C39_After, C39_From.x, C39_From.y) =
               Some(BoardTile(At(C39_Before.status_elements, 0).under_element_id,
                              At(C39_Before.status_elements, 0).under_colour))
        /\ BoardTile(At(C39_After.status_elements, 0).under_element_id,
                     At(C39_After.status_elements, 0).under_colour) =
               history.paused[1].entered[1]

(***************************************************************************)
(* C40.  The loop of RuzztEngine::step calls partial_step again and again  *)
(* until it returns true or a board message has been accumulated; nothing  *)
(* else runs in between, so an iteration that can be taken is taken.       *)
(***************************************************************************)
\* PartialStep can be taken: its guard, which is all that enables it.
PartialStepEnabled ==
    /\ step_locals /= None /\ fault = "none"
    /\ loop_continues(step_locals[1].is_done, board_simulator_step_state[1])

\* Weak fairness of PartialStep, with ENABLED <<PartialStep>>_vars written as
\* the guard of PartialStep, and weak fairness of the return of the call.
LiveSpec ==
    /\ Spec
    /\ []<>(~PartialStepEnabled) \/ []<><<PartialStep>>_vars
    /\ WF_vars(StepReturn)

\* The loop of RuzztEngine::step is about to call partial_step.
C40_Running ==
    /\ step_locals /= None
    /\ loop_continues(step_locals[1].is_done, board_simulator_step_state[1])

\* partial_step has returned true: the simulation step is complete.
C40_Done == step_locals /= None /\ step_locals[1].is_done

\* A board message has been emitted.
C40_Emitted ==
    /\ step_locals /= None
    /\ board_simulator_step_state[1].accumulated_data.board_messages /= <<>>

\* The behaviour of a status has stopped the program.
C40_BehaviourFault == fault \in {"hang", "panic", "index panic"}

C40_StepCompletesUnlessUnderflow ==
    C40_Running ~> (C40_Done \/ C40_Emitted \/ fault /= "none")

====
